---- MODULE Spec2Model ----
(***************************************************************************)
(* Notification dispatch engine of nomu-cls/notification-management.       *)
(*                                                                         *)
(* handleUniversalNotification (api/handlers/universal.js) as a state      *)
(* machine: one action per stretch of synchronous code between two awaits. *)
(* JavaScript strings that are trimmed or compared are sequences of        *)
(* one-character strings; room ids and error messages, which the handler   *)
(* only copies, are plain strings.                                         *)
(***************************************************************************)
EXTENDS Integers, Sequences, FiniteSets, TLC

(***************************************************************************)
(* Bounds                                                                  *)
(***************************************************************************)
\* longest notificationRules array of a modelled configuration
MaxRules == 2

(***************************************************************************)
(* JavaScript values                                                       *)
(***************************************************************************)
Undef == [t |-> "undefined"]
Null == [t |-> "null"]
Str(s) == [t |-> "str", v |-> s]
Num(n) == [t |-> "num", v |-> n]
Obj(f) == [t |-> "obj", v |-> f]

IsNullish(x) == x.t \in {"undefined", "null"}

Digit(d) == CASE d = 0 -> "0" [] d = 1 -> "1" [] d = 2 -> "2" [] d = 3 -> "3"
              [] d = 4 -> "4" [] d = 5 -> "5" [] d = 6 -> "6" [] d = 7 -> "7"
              [] d = 8 -> "8" [] OTHER -> "9"

\* decimal digits of a natural number (Number.prototype.toString)
RECURSIVE NumToString(_)
NumToString(n) == IF n < 10 THEN <<Digit(n)>>
                  ELSE NumToString(n \div 10) \o <<Digit(n % 10)>>

\* String(x) for the values the handler stringifies
String(x) == CASE x.t = "str" -> x.v
               [] x.t = "num" -> NumToString(x.v)
               [] x.t = "null" -> <<"n", "u", "l", "l">>
               [] x.t = "undefined" -> <<"u", "n", "d", "e", "f", "i", "n", "e", "d">>
               [] OTHER -> <<"[", "o", "b", "j", "]">>

\* x || '' : a falsy x (undefined, null, '', 0) is replaced by ''
OrEmpty(x) == CASE x.t = "str" -> x
                [] x.t = "num" -> IF x.v = 0 THEN Str(<<>>) ELSE x
                [] x.t = "obj" -> x
                [] OTHER -> Str(<<>>)

IsSpace(c) == c \in {" ", "\t", "\n"}

RECURSIVE TrimStart(_)
TrimStart(s) == IF s # <<>> /\ IsSpace(Head(s)) THEN TrimStart(Tail(s)) ELSE s

RECURSIVE TrimEnd(_)
TrimEnd(s) == IF s # <<>> /\ IsSpace(s[Len(s)])
              THEN TrimEnd(SubSeq(s, 1, Len(s) - 1)) ELSE s

\* only the leading whitespace is removed
Trim_LeadingOnly(s) == TrimStart(s)

\* String.prototype.trim
Trim(s) == TrimEnd(TrimStart(s))

\* Array.prototype.includes on an array of strings
Includes(arr, x) == \E k \in 1..Len(arr) : arr[k] = x

\* String.prototype.startsWith / endsWith
StartsWith(s, pre) == Len(s) >= Len(pre) /\ SubSeq(s, 1, Len(pre)) = pre
EndsWith(s, suf) == Len(s) >= Len(suf) /\ SubSeq(s, Len(s) - Len(suf) + 1, Len(s)) = suf

\* String.prototype.indexOf: first position of sub in s, 0 when absent
IndexOf(s, sub) ==
    LET hits == {k \in 1..(Len(s) - Len(sub) + 1) : SubSeq(s, k, k + Len(sub) - 1) = sub}
    IN IF hits = {} THEN 0 ELSE CHOOSE k \in hits : \A m \in hits : k <= m

\* String.prototype.replace(sub, rep) with a string pattern: first occurrence only
ReplaceFirst(s, sub, rep) ==
    LET k == IndexOf(s, sub)
    IN IF k = 0 THEN s
       ELSE SubSeq(s, 1, k - 1) \o rep \o SubSeq(s, k + Len(sub), Len(s))

\* s.split(sep)[n] for a one-character separator: the n-th piece (1-based),
\* Undef when there are fewer pieces
RECURSIVE SplitPiece(_, _, _)
SplitPiece(s, sep, n) ==
    LET k == IndexOf(s, <<sep>>)
    IN IF n = 1 THEN Str(IF k = 0 THEN s ELSE SubSeq(s, 1, k - 1))
       ELSE IF k = 0 THEN Undef
       ELSE SplitPiece(SubSeq(s, k + 1, Len(s)), sep, n - 1)

(***************************************************************************)
(* api/lib/filter.js : evaluateFilter                                      *)
(***************************************************************************)
\* obj[key] on a field map: Undef for an absent key
Get(obj, key) == IF key \in DOMAIN obj.v THEN obj.v[key] ELSE Undef

Returned(v) == [throws |-> FALSE, v |-> v]
Thrown(msg) == [throws |-> TRUE, v |-> msg]

\* evaluateFilter without its comparison: every filter lets the task through
evaluateFilter_AlwaysPasses(filter, allFields) == Returned(TRUE)

\* filter is Undef or Obj([targetColumn, operator, targetValue]); allFields is
\* Undef (the default {} applies), Null (indexing it is a TypeError) or Obj(map)
evaluateFilter(filter, allFields) ==
    IF IsNullish(filter) \/ IsNullish(filter.v.targetColumn) \/ filter.v.targetColumn.v = ""
    THEN Returned(TRUE)
    ELSE IF allFields.t = "null" THEN Thrown("TypeError: allFields is null")
    ELSE
      LET fields == IF allFields.t = "undefined" THEN Obj(<<>>) ELSE allFields
          operator == IF filter.v.operator.t = "undefined" THEN "equals"
                      ELSE filter.v.operator.v
          actualValue == Trim(String(OrEmpty(Get(fields, filter.v.targetColumn.v))))
          expectedValue == Trim(String(OrEmpty(filter.v.targetValue)))
      IN IF operator = "equals" THEN Returned(actualValue = expectedValue)
         ELSE IF operator = "not_equals" THEN Returned(actualValue # expectedValue)
         ELSE Returned(TRUE)

(***************************************************************************)
(* api/lib/chatwork.js : formatValue, formatMessage                        *)
(***************************************************************************)
DateOnlySuffix == <<" ", "0", "0", ":", "0", "0", ":", "0", "0">>
TimeOnlyPrefix == <<"1", "8", "9", "9", "/", "1", "2", "/", "3", "0", " ">>

\* formatValue: non-strings pass through; "... 00:00:00" loses that text;
\* "1899/12/30 HH:MM:SS" becomes "HH:MM"
formatValue(val) ==
    IF val.t # "str" THEN val
    ELSE IF EndsWith(val.v, DateOnlySuffix) THEN Str(ReplaceFirst(val.v, DateOnlySuffix, <<>>))
    ELSE IF StartsWith(val.v, TimeOnlyPrefix)
            /\ SplitPiece(val.v, " ", 2).t = "str" /\ SplitPiece(val.v, " ", 2).v # <<>>
    THEN LET timePart == SplitPiece(val.v, " ", 2).v
             h == SplitPiece(timePart, ":", 1)
             m == SplitPiece(timePart, ":", 2)
         IN Str(String(h) \o <<":">> \o String(m))
    ELSE val

\* How `new RegExp("\\{" + key + "\\}", "g")` treats a key:
\*   "plain"   the pattern matches exactly the token {key}
\*   "meta"    the key holds regular-expression operators: the pattern compiles
\*             but does not match the literal token {key}
\*   "invalid" the pattern does not compile: new RegExp throws a SyntaxError
KeyKind(key) == CASE key = "name(" -> "invalid"
                  [] key = "tel(x)" -> "meta"
                  [] OTHER -> "plain"

\* Object.entries order of the keys of formatData
KeyOrder == <<"sheetName", "allFields", "status", "tel(x)", "name(", "name", "dateTime",
              "clientName", "consultant", "matchedStaff", "staff", "email", "rowIndex", "kana">>

\* the text a substituted value turns into (String(formattedValue), JSON for objects)
ValueText(val) ==
    LET fVal == formatValue(val)
    IN CASE fVal.t = "undefined" -> <<>>
         [] fVal.t = "obj" -> <<"{", "J", "S", "O", "N", "}">>
         [] OTHER -> String(fVal)

\* A template is a sequence of tokens: [k |-> "lit", v |-> text],
\* [k |-> "key", v |-> key] for {key}, [k |-> "nested", v |-> key] for {allFields.key}
Lit(text) == [k |-> "lit", v |-> text]
Key(key) == [k |-> "key", v |-> key]
Nested(key) == [k |-> "nested", v |-> key]

\* the text of a template: {key} is written as the three characters "{", key,
\* "}", and {allFields.key} as "{", "allFields.", key, "}"
RECURSIVE TokensText(_)
TokensText(tokens) ==
    IF tokens = <<>> THEN <<>>
    ELSE (CASE Head(tokens).k = "lit" -> Head(tokens).v
            [] Head(tokens).k = "key" -> <<"{", Head(tokens).v, "}">>
            [] OTHER -> <<"{", "allFields.", Head(tokens).v, "}">>)
         \o TokensText(Tail(tokens))

\* String.prototype.replace with a global pattern for the text sub: every
\* occurrence from left to right; the text put in is not searched again
RECURSIVE ReplaceAll(_, _, _)
ReplaceAll(s, sub, rep) ==
    IF Len(s) < Len(sub) THEN s
    ELSE IF SubSeq(s, 1, Len(sub)) = sub
    THEN rep \o ReplaceAll(SubSeq(s, Len(sub) + 1, Len(s)), sub, rep)
    ELSE <<Head(s)>> \o ReplaceAll(Tail(s), sub, rep)

\* result.replace(new RegExp(`\{key\}`, 'g'), value) on the text so far
ReplaceKey(text, key, val) ==
    IF KeyKind(key) = "plain" THEN ReplaceAll(text, <<"{", key, "}">>, ValueText(val))
    ELSE text

\* the for loop over Object.entries(data), from position n of KeyOrder
RECURSIVE ReplaceEntries(_, _, _)
ReplaceEntries(text, data, n) ==
    IF n > Len(KeyOrder) THEN text
    ELSE IF KeyOrder[n] \in DOMAIN data
         THEN ReplaceEntries(ReplaceKey(text, KeyOrder[n], data[KeyOrder[n]]), data, n + 1)
         ELSE ReplaceEntries(text, data, n + 1)

\* the second pass, over {allFields.key}: data.allFields?.[key], '' when
\* undefined; the key is what stands before the next "}", one character at least
RECURSIVE ReplaceNested(_, _)
ReplaceNested(text, data) ==
    LET closing == {c \in 4..Len(text) : text[c] = "}"}
        close == CHOOSE c \in closing : \A d \in closing : c <= d
    IN IF text = <<>> THEN <<>>
       ELSE IF Len(text) >= 4 /\ text[1] = "{" /\ text[2] = "allFields." /\ text[3] # "}"
               /\ closing # {}
       THEN ValueText(IF close = 4 /\ "allFields" \in DOMAIN data
                         /\ data["allFields"].t = "obj"
                      THEN Get(data["allFields"], text[3]) ELSE Undef)
            \o ReplaceNested(SubSeq(text, close + 1, Len(text)), data)
       ELSE <<Head(text)>> \o ReplaceNested(Tail(text), data)

\* formatMessage(template, data): template is Undef or Str(tokens); data maps keys to values
formatMessage(template, data) ==
    IF template.t # "str" \/ template.v = <<>> THEN Returned(<<>>)
    ELSE IF \E key \in DOMAIN data : KeyKind(key) = "invalid"
         THEN Thrown("SyntaxError: Invalid regular expression")
    ELSE Returned(ReplaceNested(ReplaceEntries(TokensText(template.v), data, 1), data))

(***************************************************************************)
(* Inputs: the inbound event and the tenant configuration                  *)
(***************************************************************************)
Arr(a) == [t |-> "arr", v |-> a]

SheetA == <<"A", "b">>
SheetATrail == <<"A", "b", " ">>
SheetALower == <<"a", "b">>
SheetAPrefix == <<"A">>
SheetOther == <<"Z">>

Ok == <<"o", "k">>
Id111 == <<"1", "1", "1">>
Id222 == <<"2", "2", "2">>

Notif(roomId, template, columns) ==
    Obj([roomId |-> roomId, template |-> template, columns |-> columns])

Filter(targetColumn, operator, targetValue) ==
    Obj([targetColumn |-> targetColumn, operator |-> operator, targetValue |-> targetValue])

Task(enabled, roomId, filter, assigneeIds, bodyTemplate) ==
    Obj([enabled |-> enabled, roomId |-> roomId, filter |-> filter,
         assigneeIds |-> assigneeIds, bodyTemplate |-> bodyTemplate])

Rule(id, sheetName, notifications, task) ==
    Obj([id |-> id, sheetName |-> sheetName, notifications |-> notifications, task |-> task])

Greeting == Str(<<Lit(<<"H", "i", " ">>), Key("status")>>)
Plain == Str(<<Lit(<<"n", "e", "w">>)>>)

TaskSpec == Task(TRUE, "T1", Filter(Str("status"), Str("equals"), Str(Ok)),
                 Arr(<<Str(Id111), Str(Id222)>>), Greeting)
TaskLoose == Task(TRUE, "T2", Undef, Arr(<<Str(<<" ">> \o Id111), Num(222)>>), Undef)
TaskNoAssignee == Task(TRUE, "T1", Filter(Str("status"), Str("not_equals"), Str(Ok)),
                       Undef, Undef)
TaskUnknownOp == Task(TRUE, "T2", Filter(Str("status"), Str("contains"), Str(Ok)),
                      Arr(<<Str(<<"3", "3", "3">>)>>), Plain)
TaskDisabled == Task(FALSE, "T1", Undef, Arr(<<Str(Id111)>>), Undef)
TaskNoRoom == Task(TRUE, "", Undef, Arr(<<Str(Id111)>>), Undef)

\* the rules a modelled configuration is made of
RuleSamples == {
    Rule(1, Str(SheetA),
         Arr(<<Notif("R1", Greeting, Undef), Notif("R2", Undef, Arr(<<"status", "zip">>))>>),
         TaskSpec),
    Rule(2, Str(SheetA), Arr(<<Notif("R1", Plain, Undef), Null, Notif("R2", Plain, Undef)>>),
         TaskLoose),
    Rule(3, Str(SheetA),
         Arr(<<Notif("R1", Plain, Undef), Notif("", Plain, Undef),
               Notif("R1", Str(<<Nested("zip")>>), Arr(<<>>)), Notif("R2", Plain, Undef)>>),
         TaskNoAssignee),
    Rule(4, Str(SheetATrail), Arr(<<Notif("R1", Plain, Undef)>>), Undef),
    Rule(5, Str(SheetAPrefix), Arr(<<Notif("R1", Str(<<Key("tel(x)")>>), Undef)>>), TaskDisabled),
    Rule(6, Str(<<>>), Arr(<<Notif("R1", Plain, Undef)>>), TaskNoRoom),
    Null,
    Rule(8, Str(SheetA), Undef, TaskUnknownOp),
    Rule(9, Str(SheetALower), Undef, TaskLoose) }

RECURSIVE SeqsUpTo(_, _)
SeqsUpTo(S, n) ==
    IF n = 0 THEN {<<>>}
    ELSE LET shorter == SeqsUpTo(S, n - 1)
         IN shorter \cup {Append(q, e) : q \in {x \in shorter : Len(x) = n - 1}, e \in S}

\* config.notificationRules: absent, or an array of at most MaxRules entries
Configs == {[notificationRules |-> Undef]}
           \cup {[notificationRules |-> Arr(q)] : q \in SeqsUpTo(RuleSamples, MaxRules)}

Event(sheetName, allFields) == [sheetName |-> sheetName, allFields |-> allFields]

Events == {
    Event(Str(SheetA), Obj([c \in {"status"} |-> Str(Ok \o <<" ">>)])),
    Event(Str(SheetA), Obj([c \in {"status"} |-> Str(<<"n", "g">>)])),
    Event(Str(SheetA), Obj([c \in {"status", "name("} |-> Str(Ok)])),
    Event(Str(SheetA), Null),
    Event(Str(SheetAPrefix), Obj([c \in {"status", "tel(x)"} |-> Str(Ok)])),
    Event(Str(SheetALower), Undef),
    Event(Str(SheetOther), Obj([c \in {"status"} |-> Str(Ok)])) }

\* the member lists the chat platform may answer with (account_id of each member)
MemberLists == {<<Num(111)>>, <<Num(222), Num(444)>>}

(***************************************************************************)
(* api/handlers/universal.js : handleUniversalNotification                 *)
(***************************************************************************)
VARIABLES
    config,        \* the tenant configuration handed to the handler
    data,          \* the inbound event
    pc,            \* where the handler stands: the await it is suspended on
    matchedRules,  \* positions in config.notificationRules of the matched rules
    ruleIdx,       \* position in matchedRules of the rule being processed
    notifIdx,      \* position in rule.notifications of the notification being processed
    results,       \* results.notifications and results.tasks
    calls,         \* every remote call so far, in the order it was started
    error,         \* the error caught by the catch block being executed
    returned,      \* what the handler returned or threw
    tenancy,       \* api/webhook.js resolving the tenant of a request
    rendering,     \* one call of formatMessage
    booking,       \* api/handlers/consultation.js handling one booking
    filtering,     \* one call of evaluateFilter
    reporting,     \* api/lib/errorNotify.js reporting one error
    requesting,    \* one operation of the chat platform client
    editing,       \* the settings page of src/App.jsx
    parked         \* a second handling of an event, suspended on an await

\* the procedures other than handleUniversalNotification
added == <<reporting, requesting, editing, parked>>
elsewhere == <<tenancy, rendering, booking, filtering, added>>

\* a procedure that is not running
Idle == [pc |-> "idle"]

AddedIdle == reporting = Idle /\ requesting = Idle /\ editing = Idle /\ parked = Idle

vars == <<config, data, pc, matchedRules, ruleIdx, notifIdx, results, calls, error, returned,
          elsewhere>>

\* the ascending sequence of a finite set of numbers
RECURSIVE SortedSeq(_)
SortedSeq(S) ==
    IF S = {} THEN <<>>
    ELSE LET least == CHOOSE k \in S : \A m \in S : k <= m
         IN <<least>> \o SortedSeq(S \ {least})

RulesArray(cfg) == IF cfg.notificationRules.t = "arr" THEN cfg.notificationRules.v ELSE <<>>

\* line 19: r && r.sheetName
HasSheetName(r) == r.t = "obj" /\ r.v.sheetName.t = "str" /\ r.v.sheetName.v # <<>>

\* line 20: r.sheetName === data.sheetName
SheetNameMatches(ruleSheetName, eventSheetName) == ruleSheetName = eventSheetName

Reverse(q) == [n \in 1..Len(q) |-> q[Len(q) + 1 - n]]

\* the matched rules in the reverse of the configured order
MatchRules_Reversed(cfg, ev) ==
    Reverse(SortedSeq({k \in 1..Len(RulesArray(cfg)) :
                         /\ HasSheetName(RulesArray(cfg)[k])
                         /\ SheetNameMatches(RulesArray(cfg)[k].v.sheetName, ev.sheetName)}))

\* lines 19-20: the positions of the rules kept by both filters, in array order
MatchRules(cfg, ev) ==
    SortedSeq({k \in 1..Len(RulesArray(cfg)) :
                 /\ HasSheetName(RulesArray(cfg)[k])
                 /\ SheetNameMatches(RulesArray(cfg)[k].v.sheetName, ev.sheetName)})

\* a bare "not found": the configured sheet names are left out
AvailableSheets_Omitted(cfg) == <<>>

\* line 23: the sheet names of the rules the event was compared against
AvailableSheets(cfg) ==
    LET kept == SortedSeq({k \in 1..Len(RulesArray(cfg)) : HasSheetName(RulesArray(cfg)[k])})
    IN [n \in 1..Len(kept) |-> RulesArray(cfg)[kept[n]].v.sheetName.v]

\* lines 37-41: formatData = {...data, ...data.allFields, allFields: data.allFields}
FormatData(ev) ==
    LET fieldKeys == IF ev.allFields.t = "obj" THEN DOMAIN ev.allFields.v ELSE {}
    IN [key \in {"sheetName", "allFields"} \cup fieldKeys |->
          IF key = "allFields" THEN ev.allFields
          ELSE IF key \in fieldKeys THEN ev.allFields.v[key]
          ELSE ev.sheetName]

\* lines 61-67: one "col：value\n" line per whitelisted column that has a value
RECURSIVE Details(_, _)
Details(columns, allFields) ==
    IF columns = <<>> THEN <<>>
    ELSE (IF Get(allFields, Head(columns)).t # "undefined"
          THEN <<Head(columns), ":">> \o String(formatValue(Get(allFields, Head(columns)))) \o <<"\n">>
          ELSE <<>>)
         \o Details(Tail(columns), allFields)

\* lines 52-73: the message of one notification, or the error thrown while building it
BuildMessage(notif, ev) ==
    LET rendered == IF notif.template.t = "str" /\ notif.template.v # <<>>
                    THEN formatMessage(notif.template, FormatData(ev))
                    ELSE Returned(<<>>)
        details == IF notif.columns.t = "arr" /\ Len(notif.columns.v) > 0 /\ ev.allFields.t = "obj"
                   THEN Details(notif.columns.v, ev.allFields)
                   ELSE <<>>
    IN IF rendered.throws THEN rendered
       ELSE IF details = <<>> THEN rendered
       ELSE Returned(rendered.v \o (IF rendered.v # <<>> THEN <<"\n">> ELSE <<>>)
                     \o <<"[info]">> \o details \o <<"[/info]">>)

\* lines 112-113: validIds and targetIds
RECURSIVE ValidIds(_)
ValidIds(members) ==
    IF members = <<>> THEN <<>> ELSE <<String(Head(members))>> \o ValidIds(Tail(members))

RECURSIVE TargetIds(_)
TargetIds(assigneeIds) ==
    IF assigneeIds = <<>> THEN <<>>
    ELSE <<Trim(String(Head(assigneeIds)))>> \o TargetIds(Tail(assigneeIds))

\* line 117: targetIds.filter(id => validIds.includes(id))
RECURSIVE KeepValid(_, _)
KeepValid(targetIds, validIds) ==
    IF targetIds = <<>> THEN <<>>
    ELSE (IF Includes(validIds, Head(targetIds)) THEN <<Head(targetIds)>> ELSE <<>>)
         \o KeepValid(Tail(targetIds), validIds)

\* the configured ids passed on without looking at the member list
FinalAssignees_Unvalidated(assigneeIds, members) == TargetIds(assigneeIds)

FinalAssignees(assigneeIds, members) == KeepValid(TargetIds(assigneeIds), ValidIds(members))

\* lines 124-133: the task body, or the error thrown while rendering it
TaskBody(task, ev) ==
    IF task.bodyTemplate.t = "str" /\ task.bodyTemplate.v # <<>>
    THEN formatMessage(task.bodyTemplate, FormatData(ev))
    ELSE Returned(<<"[task]">> \o String(ev.sheetName))

\* one remote call: op is the client function, kind says which statement made it
\* ("notif" line 76, "members" line 111, "task" line 139, "fallback" line 162,
\* "report" lines 81 and 151); rule and notif locate it in the configuration
Call(op, kind, rule, notif, roomId, arg) ==
    [op |-> op, kind |-> kind, rule |-> rule, notif |-> notif, roomId |-> roomId,
     arg |-> arg, status |-> "pending", reply |-> <<>>]

\* the awaited call settles: the promise resolves ("ok") or rejects ("failed")
Settle(log, status) == [log EXCEPT ![Len(log)].status = status]

\* getRoomMembers resolves with the member list of the room
SettleWith(log, members) == [log EXCEPT ![Len(log)].status = "ok", ![Len(log)].reply = members]

Outcome(roomId, status, detail, rule, notif) ==
    [roomId |-> roomId, status |-> status, detail |-> detail, rule |-> rule, notif |-> notif]

NoReturn == [kind |-> "none", requested |-> <<>>, available |-> <<>>, error |-> ""]

CurRulePos == matchedRules[ruleIdx]
CurRule == RulesArray(config)[CurRulePos].v

Init ==
    /\ config \in Configs
    /\ data \in Events
    /\ pc = "start"
    /\ matchedRules = <<>>
    /\ ruleIdx = 0
    /\ notifIdx = 0
    /\ results = [notifications |-> <<>>, tasks |-> <<>>]
    /\ calls = <<>>
    /\ error = ""
    /\ returned = NoReturn
    /\ tenancy = Idle
    /\ rendering = Idle
    /\ booking = Idle
    /\ filtering = Idle
    /\ AddedIdle

\* lines 19-34: match the rules; return at once when none matches
Match ==
    /\ pc = "start"
    /\ matchedRules' = MatchRules(config, data)
    /\ IF matchedRules' = <<>>
       THEN /\ pc' = "done"
            /\ returned' = [kind |-> "no_match", requested |-> data.sheetName.v,
                            available |-> AvailableSheets(config), error |-> ""]
            /\ ruleIdx' = ruleIdx
       ELSE /\ pc' = "rule"
            /\ ruleIdx' = 1
            /\ returned' = returned
    /\ UNCHANGED <<elsewhere, config, data, notifIdx, results, calls, error>>

\* lines 44 and 169: the head of `for (const rule of matchedRules)`, and the return
NextRule ==
    /\ pc = "rule"
    /\ IF ruleIdx > Len(matchedRules)
       THEN /\ pc' = "done"
            /\ returned' = [NoReturn EXCEPT !.kind = "results"]
            /\ notifIdx' = notifIdx
       ELSE /\ pc' = "notif"
            /\ notifIdx' = 1
            /\ returned' = returned
    /\ UNCHANGED <<elsewhere, config, data, matchedRules, ruleIdx, results, calls, error>>

\* lines 79-87 and 149-157: enter a catch block, which first awaits notifyError
Catch(log, kind, message, roomId) ==
    /\ error' = message
    /\ calls' = Append(log, Call("notifyError", "report", CurRulePos,
                                 IF kind = "notif" THEN notifIdx ELSE 0, roomId, <<>>))
    /\ pc' = IF kind = "notif" THEN "notifCatch" ELSE "taskCatch"

\* lines 47-76: the head of `for (const notif of rule.notifications)` and one
\* iteration up to its first await
ProcessNotification ==
    /\ pc = "notif"
    /\ IF CurRule.notifications.t # "arr" \/ notifIdx > Len(CurRule.notifications.v)
       THEN /\ pc' = "task"
            /\ UNCHANGED <<notifIdx, calls, error, returned>>
       ELSE LET notif == CurRule.notifications.v[notifIdx]
            IN IF notif.t = "null"
               THEN \* line 49 reads notif.roomId outside every try block
                    /\ pc' = "thrown"
                    /\ returned' = [NoReturn EXCEPT !.kind = "thrown",
                                       !.error = "TypeError: Cannot read properties of null"]
                    /\ UNCHANGED <<notifIdx, calls, error>>
               ELSE IF notif.v.roomId = ""
               THEN /\ notifIdx' = notifIdx + 1
                    /\ UNCHANGED <<pc, calls, error, returned>>
               ELSE LET built == BuildMessage(notif.v, data)
                    IN IF built.throws
                       THEN /\ Catch(calls, "notif", built.v, notif.v.roomId)
                            /\ UNCHANGED <<notifIdx, returned>>
                       ELSE IF built.v = <<>>
                       THEN /\ notifIdx' = notifIdx + 1
                            /\ UNCHANGED <<pc, calls, error, returned>>
                       ELSE /\ calls' = Append(calls, Call("sendMessage", "notif", CurRulePos,
                                                           notifIdx, notif.v.roomId, built.v))
                            /\ pc' = "sending"
                            /\ UNCHANGED <<notifIdx, error, returned>>
    /\ UNCHANGED <<elsewhere, config, data, matchedRules, ruleIdx, results>>

\* a rejected sendMessage is attempted a second time before it is given up
SendMessageSettles_Retries ==
    /\ pc = "sending"
    /\ \/ /\ calls' = Settle(calls, "ok")
          /\ results' = [results EXCEPT !.notifications =
                            Append(@, Outcome(calls[Len(calls)].roomId, "sent", "", CurRulePos, notifIdx))]
          /\ notifIdx' = notifIdx + 1
          /\ pc' = "notif"
          /\ error' = error
       \/ /\ IF \E k \in 1..(Len(calls) - 1) :
                  /\ calls[k].kind = "notif"
                  /\ calls[k].rule = CurRulePos
                  /\ calls[k].notif = notifIdx
             THEN Catch(Settle(calls, "failed"), "notif", "Chatwork API error", calls[Len(calls)].roomId)
             ELSE /\ calls' = Append(Settle(calls, "failed"),
                                     [calls[Len(calls)] EXCEPT !.status = "pending"])
                  /\ UNCHANGED <<pc, error>>
          /\ UNCHANGED <<results, notifIdx>>
    /\ UNCHANGED <<elsewhere, config, data, matchedRules, ruleIdx, returned>>

\* lines 76-78 and 79: sendMessage resolves, or rejects into the catch block
SendMessageSettles ==
    /\ pc = "sending"
    /\ \/ /\ calls' = Settle(calls, "ok")
          /\ results' = [results EXCEPT !.notifications =
                            Append(@, Outcome(calls[Len(calls)].roomId, "sent", "", CurRulePos, notifIdx))]
          /\ notifIdx' = notifIdx + 1
          /\ pc' = "notif"
          /\ error' = error
       \/ /\ Catch(Settle(calls, "failed"), "notif", "Chatwork API error", calls[Len(calls)].roomId)
          /\ UNCHANGED <<results, notifIdx>>
    /\ UNCHANGED <<elsewhere, config, data, matchedRules, ruleIdx, returned>>

\* the catch block records the notification as sent
NotificationCatch_RecordsSent ==
    /\ pc = "notifCatch"
    /\ calls' = Settle(calls, "ok")
    /\ results' = [results EXCEPT !.notifications =
                      Append(@, Outcome(calls[Len(calls)].roomId, "sent", "", CurRulePos, notifIdx))]
    /\ notifIdx' = notifIdx + 1
    /\ pc' = "notif"
    /\ UNCHANGED <<elsewhere, config, data, matchedRules, ruleIdx, error, returned>>

\* lines 81-88: the promise of notifyError resolves (it never rejects, and its
\* boolean is discarded) and the failed outcome is recorded
NotificationCatch ==
    /\ pc = "notifCatch"
    /\ calls' = Settle(calls, "ok")
    /\ results' = [results EXCEPT !.notifications =
                      Append(@, Outcome(calls[Len(calls)].roomId, "failed", error, CurRulePos, notifIdx))]
    /\ notifIdx' = notifIdx + 1
    /\ pc' = "notif"
    /\ UNCHANGED <<elsewhere, config, data, matchedRules, ruleIdx, error, returned>>

\* lines 94-111: the task step up to its first await
ProcessTask ==
    /\ pc = "task"
    /\ LET task == CurRule.task
       IN IF ~(task.t = "obj" /\ task.v.enabled /\ task.v.roomId # "")
          THEN /\ ruleIdx' = ruleIdx + 1
               /\ pc' = "rule"
               /\ UNCHANGED <<results, calls, error>>
          ELSE LET passes == IF task.v.filter.t = "obj"
                             THEN evaluateFilter(task.v.filter, data.allFields)
                             ELSE Returned(TRUE)
                   assigneeIds == IF task.v.assigneeIds.t = "arr" THEN task.v.assigneeIds.v ELSE <<>>
               IN IF passes.throws
                  THEN /\ Catch(calls, "task", passes.v, task.v.roomId)
                       /\ UNCHANGED <<ruleIdx, results>>
                  ELSE IF ~passes.v
                  THEN /\ results' = [results EXCEPT !.tasks =
                                         Append(@, Outcome(task.v.roomId, "skipped", "filter_mismatch",
                                                           CurRulePos, 0))]
                       /\ ruleIdx' = ruleIdx + 1
                       /\ pc' = "rule"
                       /\ UNCHANGED <<calls, error>>
                  ELSE IF Len(assigneeIds) = 0
                  THEN /\ Catch(calls, "task", "No assignee IDs configured for task", task.v.roomId)
                       /\ UNCHANGED <<ruleIdx, results>>
                  ELSE /\ calls' = Append(calls, Call("getRoomMembers", "members", CurRulePos, 0,
                                                      task.v.roomId, <<>>))
                       /\ pc' = "members"
                       /\ UNCHANGED <<ruleIdx, results, error>>
    /\ UNCHANGED <<elsewhere, config, data, matchedRules, notifIdx, returned>>

\* lines 111-145: getRoomMembers settles; the assignees are validated, the body
\* is rendered and createTask is started
GetRoomMembersSettles ==
    /\ pc = "members"
    /\ LET task == CurRule.task.v
       IN \/ Catch(Settle(calls, "failed"), "task", "Chatwork Members API error", task.roomId)
          \/ \E members \in MemberLists :
               LET finalAssignees == FinalAssignees(task.assigneeIds.v, members)
                   taskBody == TaskBody(task, data)
               IN IF finalAssignees = <<>>
                  THEN Catch(SettleWith(calls, members), "task", "No valid assignees found in room", task.roomId)
                  ELSE IF taskBody.throws
                  THEN Catch(SettleWith(calls, members), "task", taskBody.v, task.roomId)
                  ELSE /\ calls' = Append(SettleWith(calls, members),
                                          Call("createTask", "task", CurRulePos, 0, task.roomId,
                                               finalAssignees))
                       /\ pc' = "creating"
                       /\ error' = error
    /\ UNCHANGED <<elsewhere, config, data, matchedRules, ruleIdx, notifIdx, results, returned>>

\* lines 139-147: createTask resolves, or rejects into the catch block
CreateTaskSettles ==
    /\ pc = "creating"
    /\ \/ /\ calls' = Settle(calls, "ok")
          /\ results' = [results EXCEPT !.tasks =
                            Append(@, Outcome(CurRule.task.v.roomId, "created", "", CurRulePos, 0))]
          /\ ruleIdx' = ruleIdx + 1
          /\ pc' = "rule"
          /\ error' = error
       \/ /\ Catch(Settle(calls, "failed"), "task", "Chatwork Task API error", CurRule.task.v.roomId)
          /\ UNCHANGED <<results, ruleIdx>>
    /\ UNCHANGED <<elsewhere, config, data, matchedRules, notifIdx, returned>>

\* the catch block of the task step without its fallback message
TaskCatch_NoFallback ==
    /\ pc = "taskCatch"
    /\ calls' = Settle(calls, "ok")
    /\ results' = [results EXCEPT !.tasks =
                      Append(@, Outcome(CurRule.task.v.roomId, "failed", error, CurRulePos, 0))]
    /\ ruleIdx' = ruleIdx + 1
    /\ pc' = "rule"
    /\ UNCHANGED <<elsewhere, config, data, matchedRules, notifIdx, error, returned>>

\* lines 151-163: the promise of notifyError resolves, the failed outcome is
\* recorded and the fallback message is started
TaskCatch ==
    /\ pc = "taskCatch"
    /\ calls' = Append(Settle(calls, "ok"),
                       Call("sendMessage", "fallback", CurRulePos, 0, CurRule.task.v.roomId, <<>>))
    /\ results' = [results EXCEPT !.tasks =
                      Append(@, Outcome(CurRule.task.v.roomId, "failed", error, CurRulePos, 0))]
    /\ pc' = "fallback"
    /\ UNCHANGED <<elsewhere, config, data, matchedRules, ruleIdx, notifIdx, error, returned>>

\* the fallback message without its own try/catch: a rejection leaves the handler
FallbackSettles_Escalates ==
    /\ pc = "fallback"
    /\ \/ /\ calls' = Settle(calls, "ok")
          /\ ruleIdx' = ruleIdx + 1
          /\ pc' = "rule"
          /\ returned' = returned
       \/ /\ calls' = Settle(calls, "failed")
          /\ ruleIdx' = ruleIdx
          /\ pc' = "thrown"
          /\ returned' = [NoReturn EXCEPT !.kind = "thrown", !.error = "Chatwork API error"]
    /\ UNCHANGED <<elsewhere, config, data, matchedRules, notifIdx, results, error>>

\* lines 161-166: the fallback message settles; a rejection is ignored
FallbackSettles ==
    /\ pc = "fallback"
    /\ \E status \in {"ok", "failed"} : calls' = Settle(calls, status)
    /\ ruleIdx' = ruleIdx + 1
    /\ pc' = "rule"
    /\ UNCHANGED <<elsewhere, config, data, matchedRules, notifIdx, results, error, returned>>

Next ==
    \/ Match
    \/ NextRule
    \/ ProcessNotification
    \/ SendMessageSettles
    \/ NotificationCatch
    \/ ProcessTask
    \/ GetRoomMembersSettles
    \/ CreateTaskSettles
    \/ TaskCatch
    \/ FallbackSettles

Spec == Init /\ [][Next]_vars

(***************************************************************************)
(* Vocabulary of the properties                                            *)
(***************************************************************************)
Terminated == pc \in {"done", "thrown"}

MatchedPositions == {matchedRules[n] : n \in 1..Len(matchedRules)}

RuleAt(p) == RulesArray(config)[p].v

\* the place of rule p in the order of processing
OrderOf(p) == CHOOSE n \in 1..Len(matchedRules) : matchedRules[n] = p

\* the handler has reached rule p / has left rule p
RuleStarted(p) == pc # "start" /\ OrderOf(p) <= ruleIdx /\ (OrderOf(p) = ruleIdx => pc # "rule")
RuleLeft(p) == OrderOf(p) < ruleIdx

CallsOf(kind, p, i) ==
    {k \in 1..Len(calls) : calls[k].kind = kind /\ calls[k].rule = p /\ calls[k].notif = i}

NotifOutcomes(p, i) ==
    {k \in 1..Len(results.notifications) :
        results.notifications[k].rule = p /\ results.notifications[k].notif = i}

TaskOutcomes(p) == {k \in 1..Len(results.tasks) : results.tasks[k].rule = p}

NotifsOf(p) == IF RuleAt(p).notifications.t = "arr" THEN RuleAt(p).notifications.v ELSE <<>>

\* notification i of rule p has a room id and a non-empty message
Sendable(p, i) ==
    /\ NotifsOf(p)[i].t = "obj"
    /\ NotifsOf(p)[i].v.roomId # ""
    /\ ~BuildMessage(NotifsOf(p)[i].v, data).throws
    /\ BuildMessage(NotifsOf(p)[i].v, data).v # <<>>

\* the task of rule p is enabled and has a target room
TaskEnabled(p) ==
    RuleAt(p).task.t = "obj" /\ RuleAt(p).task.v.enabled /\ RuleAt(p).task.v.roomId # ""

\* the string a field or target value is compared as: '' when missing, trimmed
Compared(val) == IF val.t = "str" THEN Trim(val.v) ELSE <<>>

\* the filter of the task of rule p says no on the event's fields (spec 4.5)
FilterSaysNo(p) ==
    LET filter == RuleAt(p).task.v.filter
        actual == IF data.allFields.t = "obj" /\ filter.v.targetColumn.v \in DOMAIN data.allFields.v
                  THEN Compared(data.allFields.v[filter.v.targetColumn.v]) ELSE <<>>
    IN /\ filter.t = "obj"
       /\ data.allFields.t # "null"
       /\ filter.v.targetColumn.t = "str" /\ filter.v.targetColumn.v # ""
       /\ \/ /\ filter.v.operator.t = "undefined" \/ filter.v.operator.v = "equals"
             /\ actual # Compared(filter.v.targetValue)
          \/ /\ filter.v.operator.t = "str" /\ filter.v.operator.v = "not_equals"
             /\ actual = Compared(filter.v.targetValue)

(***************************************************************************)
(* C1, C2: isolation of failures                                           *)
(***************************************************************************)
\* C1: a failing notification never blocks the rest of its rule: when the
\* handler has ended, every later notification of the same rule that has a
\* room id and a non-empty message was sent and has an outcome, and the task
\* step of the rule ran when the task is enabled and has a room.
C1_FailureNeverBlocksSiblings ==
    Terminated =>
      \A p \in MatchedPositions : \A i \in 1..Len(NotifsOf(p)) :
        (\E o \in NotifOutcomes(p, i) : results.notifications[o].status = "failed") =>
          /\ \A j \in (i + 1)..Len(NotifsOf(p)) :
               Sendable(p, j) => CallsOf("notif", p, j) # {} /\ NotifOutcomes(p, j) # {}
          /\ TaskEnabled(p) => TaskOutcomes(p) # {}

\* C2: an error thrown while processing a matched rule never leaves the
\* handler: it is recorded as a failed outcome of that rule and every later
\* matched rule is still processed.
C2_RuleErrorsAreContained ==
    /\ returned.kind # "thrown"
    /\ pc = "done" /\ returned.kind = "results" =>
         \A p \in MatchedPositions :
           (\E i \in 1..Len(NotifsOf(p)) : NotifsOf(p)[i].t = "null") =>
             \E o \in 1..Len(results.notifications) :
               results.notifications[o].rule = p /\ results.notifications[o].status = "failed"

(***************************************************************************)
(* C3 - C6: the task step                                                  *)
(***************************************************************************)
\* the remote calls and reports made by the task step of rule p
TaskStepCalls(p) ==
    {k \in 1..Len(calls) : calls[k].rule = p /\ calls[k].notif = 0}

\* C3: when the task of a matched rule is enabled, has a room, and its filter
\* says no on the event's fields, the task step makes no remote call and no
\* report, and once it has run the rule has exactly one task outcome:
\* {status: 'skipped', reason: 'filter_mismatch'} for the task room.
C3_FilterMismatchSkipsSilently ==
    \A p \in MatchedPositions :
      TaskEnabled(p) /\ FilterSaysNo(p) =>
        /\ TaskStepCalls(p) = {}
        /\ Cardinality(TaskOutcomes(p)) = (IF RuleLeft(p) THEN 1 ELSE 0)
        /\ \A o \in TaskOutcomes(p) :
             /\ results.tasks[o].status = "skipped"
             /\ results.tasks[o].detail = "filter_mismatch"
             /\ results.tasks[o].roomId = RuleAt(p).task.v.roomId

\* C3 witness: a task step was skipped by its filter after a notification of
\* the same rule had been sent
C3_Witness ==
    \E p \in MatchedPositions :
      /\ TaskEnabled(p) /\ FilterSaysNo(p) /\ RuleLeft(p)
      /\ \E k \in 1..Len(calls) : calls[k].rule = p /\ calls[k].kind = "notif"

\* the member ids (as strings) of a getRoomMembers answer
MemberIdSet(members) == {String(members[n]) : n \in 1..Len(members)}

\* the configured assignee ids of rule p
ConfiguredIds(p) ==
    IF RuleAt(p).task.v.assigneeIds.t = "arr" THEN RuleAt(p).task.v.assigneeIds.v ELSE <<>>

\* configured ids, stringified and trimmed, in configured order, restricted to the members
ExpectedAssignees(ids, members) ==
    SelectSeq([n \in 1..Len(ids) |-> Trim(String(ids[n]))],
              LAMBDA id : id \in MemberIdSet(members))

\* the task step of rule p went past its filter and then failed
TaskFailedAfterFilter(p) ==
    /\ TaskEnabled(p)
    /\ RuleStarted(p)
    /\ \/ \E k \in CallsOf("members", p, 0) : calls[k].status = "failed"
       \/ \E k \in CallsOf("members", p, 0) :
            calls[k].status = "ok" /\ ExpectedAssignees(ConfiguredIds(p), calls[k].reply) = <<>>
       \/ \E k \in CallsOf("task", p, 0) : calls[k].status = "failed"
       \/ /\ ConfiguredIds(p) = <<>>
          /\ ~FilterSaysNo(p)
          /\ data.allFields.t # "null" \/ RuleAt(p).task.v.filter.t # "obj"
          /\ OrderOf(p) < ruleIdx \/ pc \in {"taskCatch", "fallback"}

\* C4: when the task step of a rule fails after the filter passed, there is
\* exactly one error report for it; once the report has returned there is
\* exactly one task outcome for the rule, with status 'failed', and exactly one
\* fallback message, started after the report, to the task room; and nothing
\* more once the rule is left.
C4_TaskFailureReportedOnce ==
    \A p \in MatchedPositions :
      TaskFailedAfterFilter(p) =>
        LET reports == CallsOf("report", p, 0)
            fallbacks == CallsOf("fallback", p, 0)
            reported == \E k \in reports : calls[k].status # "pending"
        IN /\ Cardinality(reports) = 1
           /\ Cardinality(fallbacks) = (IF reported THEN 1 ELSE 0)
           /\ Cardinality(TaskOutcomes(p)) = (IF reported THEN 1 ELSE 0)
           /\ \A o \in TaskOutcomes(p) : results.tasks[o].status = "failed"
           /\ \A k \in reports : \A f \in fallbacks :
                /\ f = k + 1
                /\ calls[f].op = "sendMessage"
                /\ calls[f].roomId = RuleAt(p).task.v.roomId
           /\ RuleLeft(p) => reported /\ \A f \in fallbacks : calls[f].status # "pending"

\* C4 witness: a task failed because no configured assignee is a member of the
\* room, and the rule was left
C4_Witness ==
    \E p \in MatchedPositions :
      /\ TaskFailedAfterFilter(p) /\ RuleLeft(p)
      /\ \E k \in CallsOf("members", p, 0) :
           calls[k].status = "ok" /\ ExpectedAssignees(ConfiguredIds(p), calls[k].reply) = <<>>

\* C5: every createTask call carries a non-empty assignee list: the configured
\* ids, stringified and trimmed, in configured order, restricted to the member
\* list fetched just before for the same room; no other id is passed. For
\* configured ["111","222"] and members [{account_id:111}] the list is ["111"].
C5_AssigneesAreRoomMembers ==
    \A k \in 1..Len(calls) :
      calls[k].op = "createTask" =>
        /\ k > 1
        /\ calls[k - 1].op = "getRoomMembers"
        /\ calls[k - 1].status = "ok"
        /\ calls[k - 1].rule = calls[k].rule
        /\ calls[k - 1].roomId = calls[k].roomId
        /\ calls[k].arg # <<>>
        /\ calls[k].arg = ExpectedAssignees(ConfiguredIds(calls[k].rule), calls[k - 1].reply)
        /\ \A n \in 1..Len(calls[k].arg) : calls[k].arg[n] \in MemberIdSet(calls[k - 1].reply)
        /\ (/\ ConfiguredIds(calls[k].rule) = <<Str(Id111), Str(Id222)>>
            /\ calls[k - 1].reply = <<Num(111)>>) => calls[k].arg = <<Id111>>

\* C5 witness: createTask was called for configured ["111","222"] in a room
\* whose only member is 111
C5_Witness ==
    \E k \in 2..Len(calls) :
      /\ calls[k].op = "createTask"
      /\ ConfiguredIds(calls[k].rule) = <<Str(Id111), Str(Id222)>>
      /\ calls[k - 1].reply = <<Num(111)>>

\* C6: when the fallback message fails, the failure is swallowed: in that step
\* no call is started (so no report), no outcome is added or changed, nothing is
\* thrown, and the handler moves on to the next matched rule.
C6_FallbackFailureSwallowed ==
    [][(pc = "fallback" /\ calls'[Len(calls)].status = "failed") =>
         /\ Len(calls') = Len(calls)
         /\ results' = results
         /\ returned' = returned
         /\ pc' = "rule"
         /\ ruleIdx' = ruleIdx + 1]_vars

\* C6 witness: after a failed fallback message the next matched rule is being processed
C6_Witness ==
    /\ pc = "notif"
    /\ ruleIdx > 1
    /\ calls # <<>>
    /\ calls[Len(calls)].kind = "fallback"
    /\ calls[Len(calls)].status = "failed"
    /\ calls[Len(calls)].rule = matchedRules[ruleIdx - 1]

(***************************************************************************)
(* C7, C8: order and number of the remote calls                            *)
(***************************************************************************)
\* the place of a call inside its rule: notifications in array order, each
\* followed by its report, then the task step: members, task, report, fallback
PlaceInRule(c) ==
    IF c.notif > 0
    THEN <<c.notif, IF c.kind = "notif" THEN 1 ELSE 2>>
    ELSE <<Len(NotifsOf(c.rule)) + 1,
           CASE c.kind = "members" -> 1 [] c.kind = "task" -> 2
             [] c.kind = "report" -> 3 [] OTHER -> 4>>

Before(a, b) == a[1] < b[1] \/ (a[1] = b[1] /\ a[2] < b[2])

\* C7: the remote calls are strictly sequential and in configuration order:
\* only the latest call can be pending; calls of a rule that comes earlier in
\* the configured array come first; within a rule the notifications are sent in
\* array order and the task step comes after them.
C7_SequentialInConfiguredOrder ==
    /\ \A k \in 1..(Len(calls) - 1) : calls[k].status # "pending"
    /\ \A n \in 1..(Len(matchedRules) - 1) : matchedRules[n] < matchedRules[n + 1]
    /\ \A k \in 1..(Len(calls) - 1) :
         \/ calls[k].rule < calls[k + 1].rule
         \/ /\ calls[k].rule = calls[k + 1].rule
            /\ Before(PlaceInRule(calls[k]), PlaceInRule(calls[k + 1]))

\* C7 witness: two notifications of a first rule were sent, its task was
\* created, and a second rule has started sending
C7_Witness ==
    \E k \in 1..Len(calls) : \E m \in 1..Len(calls) :
      /\ calls[k].kind = "notif" /\ calls[k].notif = 2
      /\ calls[m].kind = "notif" /\ calls[m].rule > calls[k].rule
      /\ \E t \in 1..Len(calls) : calls[t].kind = "task" /\ calls[t].rule = calls[k].rule

\* C8: no retry: each configured notification causes at most one sendMessage,
\* each rule's task at most one getRoomMembers and at most one createTask; a
\* failed send is reported once and recorded once as failed, and a failed
\* getRoomMembers or createTask is never followed by another attempt.
C8_NoRetry ==
    /\ \A p \in MatchedPositions :
         /\ \A i \in 1..Len(NotifsOf(p)) :
              /\ Cardinality(CallsOf("notif", p, i)) <= 1
              /\ \A k \in CallsOf("notif", p, i) :
                   calls[k].status = "failed" =>
                     /\ Cardinality(CallsOf("report", p, i)) = 1
                     /\ (Len(calls) > k + 1 \/ calls[Len(calls)].status # "pending") =>
                          /\ Cardinality(NotifOutcomes(p, i)) = 1
                          /\ \A o \in NotifOutcomes(p, i) :
                               results.notifications[o].status = "failed"
         /\ Cardinality(CallsOf("members", p, 0)) <= 1
         /\ Cardinality(CallsOf("task", p, 0)) <= 1
    /\ \A k \in 1..Len(calls) : calls[k].rule \in MatchedPositions

\* C8 witness: a send failed, and the handler went on to a later notification
C8_Witness ==
    \E k \in 1..Len(calls) : \E m \in 1..Len(calls) :
      /\ calls[k].kind = "notif" /\ calls[k].status = "failed"
      /\ calls[m].kind = "notif" /\ m > k

(***************************************************************************)
(* C9, C10: the rule matcher                                               *)
(***************************************************************************)
\* the configured rules whose sheetName is strictly equal to the event's
StrictlyEqualRules ==
    {k \in 1..Len(RulesArray(config)) :
        /\ RulesArray(config)[k].t = "obj"
        /\ RulesArray(config)[k].v.sheetName.t = "str"
        /\ RulesArray(config)[k].v.sheetName.v = data.sheetName.v}

\* the rules the handler has processed so far
ProcessedRules ==
    {matchedRules[n] : n \in {m \in 1..Len(matchedRules) : m < ruleIdx \/ (m = ruleIdx /\ pc # "rule")}}

\* C9: the rules processed for an event are exactly the configured rules whose
\* sheetName is strictly equal to the event's sheetName; every one of them is
\* processed.
C9_ExactlyTheEqualRulesProcessed ==
    /\ ProcessedRules \subseteq StrictlyEqualRules
    /\ Terminated => ProcessedRules = StrictlyEqualRules

\* the sheet names of the configured rules that have one, in configured order
RECURSIVE ConfiguredSheetNames(_)
ConfiguredSheetNames(arr) ==
    IF arr = <<>> THEN <<>>
    ELSE (IF Head(arr).t = "obj" /\ Head(arr).v.sheetName.t = "str" /\ Head(arr).v.sheetName.v # <<>>
          THEN <<Head(arr).v.sheetName.v>> ELSE <<>>)
         \o ConfiguredSheetNames(Tail(arr))

\* C10: when no configured rule matches the event's sheet name, the handler
\* returns a result naming the requested sheet name and every configured sheet
\* name it was compared against, and makes no chat-platform call.
C10_NoMatchIsDiagnosed ==
    Terminated /\ StrictlyEqualRules = {} =>
      /\ returned.kind = "no_match"
      /\ returned.requested = data.sheetName.v
      /\ returned.available = ConfiguredSheetNames(RulesArray(config))
      /\ calls = <<>>
      /\ results = [notifications |-> <<>>, tasks |-> <<>>]

\* C10 witness: an event matched none of two configured sheet names
C10_Witness ==
    /\ Terminated
    /\ StrictlyEqualRules = {}
    /\ Len(returned.available) = 2
    /\ returned.available[1] # returned.available[2]

(***************************************************************************)
(* api/lib/firestore.js : the configuration store                          *)
(***************************************************************************)
\* longest list of tenant documents in the promotions collection
MaxTenants == 2

\* a || b
Truthy(x) == CASE x.t \in {"undefined", "null", "nan"} -> FALSE
               [] x.t = "str" -> x.v # <<>>
               [] x.t = "num" -> x.v # 0
               [] OTHER -> TRUE
OrElse(a, b) == IF Truthy(a) THEN a ELSE b

\* process.env: some variables are set, the others are not
Env == [SPREADSHEET_ID |-> Undef,
        STAFF_LIST_SHEET |-> Str(<<"env-staff">>),
        BOOKING_LIST_SHEET |-> Undef,
        STAFF_CHAT_SHEET |-> Undef,
        ADMIN_CHATWORK_TOKEN |-> Str(<<"tok-env">>),
        CONSULTATION_ROOM_ID |-> Undef,
        CONSULTATION_TEMPLATE |-> Undef,
        ADMIN_ROOM_ID |-> Str(<<"room-env">>)]

\* the library defaults of getConfig (lines 286-288, 298-309)
DefaultStaffListSheet == Str(<<"lib-staff">>)
DefaultBookingListSheet == Str(<<"B", "k">>)
DefaultStaffChatSheet == Str(<<"lib-chat">>)
DefaultBookingColumnMapping ==
    Arr(<<Str(<<>>), Str(<<Key("dateTime")>>), Str(<<Key("clientName")>>),
          Str(<<Nested("kana")>>), Str(<<Key("email")>>), Str(<<Nested("Phone")>>),
          Str(<<>>), Str(<<Key("staff")>>), Str(<<>>), Str(<<Nested("Zoom")>>)>>)

\* timestamps as Firestore returns them (timestampValue), here a bare year
Y2024 == <<"2", "0", "2", "4">>
Y2025 == <<"2", "0", "2", "5">>

\* what a tenant stores: its own credentials and either a booking sheet or a rule
StoredConfig(owner, bookingListSheet, ruleSheet) ==
    LET own == [chatworkToken |-> Str(<<"tok-">> \o owner), roomId |-> Str(<<"room-">> \o owner)]
        rules == [notificationRules |-> Arr(<<Rule(1, ruleSheet, Undef, Undef)>>)]
        sheet == [bookingListSheet |-> bookingListSheet]
    IN IF bookingListSheet.t = "undefined"
       THEN Obj([k \in {"chatworkToken", "roomId", "notificationRules"} |->
                   IF k = "notificationRules" THEN rules[k] ELSE own[k]])
       ELSE Obj([k \in {"chatworkToken", "roomId", "bookingListSheet"} |->
                   IF k = "bookingListSheet" THEN sheet[k] ELSE own[k]])

\* the parsed fields of a promotions/{id} document: the configuration sits under
\* "config"; createdAt and updatedAt are optional
PromotionFields(owner, createdAt, updatedAt, stored) ==
    LET all == [name |-> Str(<<"name-">> \o owner), createdAt |-> createdAt,
                updatedAt |-> updatedAt, config |-> stored]
    IN Obj([k \in {f \in {"name", "createdAt", "updatedAt", "config"} :
                     all[f].t # "undefined"} |-> all[k]])

\* the kinds of tenant document: what it stores and when it was written
TenantKinds ==
    {[createdAt |-> Undef, updatedAt |-> Undef, booking |-> Undef, rule |-> Str(SheetA)],
     [createdAt |-> Undef, updatedAt |-> Str(Y2024), booking |-> Undef, rule |-> Str(SheetA)],
     [createdAt |-> Str(Y2024), updatedAt |-> Str(Y2025), booking |-> Str(SheetA),
      rule |-> Undef],
     [createdAt |-> Str(Y2024), updatedAt |-> Undef, booking |-> Undef, rule |-> Str(SheetOther)]}

\* the id of the tenant at position n of the collection
TenantId(n) == <<"p", Digit(n)>>

\* the promotions collection: documents in listing order
Promotions(kinds) ==
    [n \in 1..Len(kinds) |->
        [id |-> TenantId(n),
         fields |-> PromotionFields(TenantId(n), kinds[n].createdAt, kinds[n].updatedAt,
                                    StoredConfig(TenantId(n), kinds[n].booking, kinds[n].rule))]]

\* a tenant document without any field
EmptyDocument == [id |-> TenantId(1), fields |-> Obj(<<>>)]

Stores == {Promotions(kinds) : kinds \in SeqsUpTo(TenantKinds, MaxTenants)}
          \cup {<<EmptyDocument>>}

\* notification_config/main: absent, or the legacy tenant's configuration
LegacyDocuments ==
    {Null,
     StoredConfig(<<"main">>, Str(SheetOther), Undef),
     StoredConfig(<<"main">>, Undef, Str(SheetA))}

\* what a fetch of one document can give: the request throws, the answer is
\* not ok (404, 403, 5xx), or, when the document exists, the answer carries it
Responses(document) ==
    {[kind |-> "throws", fields |-> Null], [kind |-> "notok", fields |-> Null]}
    \cup (IF document = Null THEN {} ELSE {[kind |-> "ok", fields |-> document]})

\* the promotions/{id} document of the store, Null when there is none
DocumentOf(store, id) ==
    IF \E n \in 1..Len(store) : Str(store[n].id) = id
    THEN store[CHOOSE n \in 1..Len(store) : Str(store[n].id) = id].fields
    ELSE Null

\* lines 281-314: the stored configuration completed by the environment and the defaults
MergedKeys == {"_promotionId", "spreadsheetId", "staffListSheet", "bookingListSheet",
               "staffChatSheet", "chatworkToken", "roomId", "consultationTemplate",
               "bookingColumnMapping", "adminChatworkToken", "adminChatworkRoomId"}

MergeWithEnvironment(stored, resolvedPromotionId) ==
    LET mapping == Get(stored, "bookingColumnMapping")
    IN Obj([k \in DOMAIN stored.v \cup MergedKeys |->
         CASE k = "spreadsheetId" -> OrElse(Get(stored, k), Env.SPREADSHEET_ID)
           [] k = "staffListSheet" ->
                OrElse(Get(stored, k), OrElse(Env.STAFF_LIST_SHEET, DefaultStaffListSheet))
           [] k = "bookingListSheet" ->
                OrElse(Get(stored, k), OrElse(Env.BOOKING_LIST_SHEET, DefaultBookingListSheet))
           [] k = "staffChatSheet" ->
                OrElse(Get(stored, k), OrElse(Env.STAFF_CHAT_SHEET, DefaultStaffChatSheet))
           [] k = "chatworkToken" -> OrElse(Get(stored, k), Env.ADMIN_CHATWORK_TOKEN)
           [] k = "roomId" -> OrElse(Get(stored, k), Env.CONSULTATION_ROOM_ID)
           [] k = "consultationTemplate" -> OrElse(Get(stored, k), Env.CONSULTATION_TEMPLATE)
           [] k = "bookingColumnMapping" ->
                IF Truthy(mapping) /\ mapping.t \in {"arr", "str"} /\ Len(mapping.v) > 0
                THEN mapping ELSE DefaultBookingColumnMapping
           [] k = "adminChatworkToken" -> OrElse(Get(stored, k), Env.ADMIN_CHATWORK_TOKEN)
           [] k = "adminChatworkRoomId" -> OrElse(Get(stored, k), Env.ADMIN_ROOM_ID)
           [] k = "_promotionId" ->
                IF k \in DOMAIN stored.v THEN stored.v[k] ELSE resolvedPromotionId
           [] OTHER -> stored.v[k]])

\* lines 249-262: the tenant's document, {} when no id is given or the fetch fails
PromotionConfig(promotionId, promoResponse) ==
    IF Truthy(promotionId) /\ promoResponse.kind = "ok"
    THEN OrElse(Get(promoResponse.fields, "config"), promoResponse.fields)
    ELSE Obj(<<>>)

\* line 265: Object.keys(config).length === 0
NeedsLegacy(promotionId, promoResponse) ==
    DOMAIN PromotionConfig(promotionId, promoResponse).v = {}

\* a tenant's configuration is returned whatever the tenant's fetch gave
getConfig_NoLegacyFallback(promotionId, promoResponse, legacyResponse) ==
    MergeWithEnvironment(PromotionConfig(promotionId, promoResponse), promotionId)

\* lines 244-315
getConfig(promotionId, promoResponse, legacyResponse) ==
    LET fromLegacy == NeedsLegacy(promotionId, promoResponse) /\ legacyResponse.kind = "ok"
    IN IF fromLegacy
       THEN MergeWithEnvironment(legacyResponse.fields, Str(<<"main">>))
       ELSE MergeWithEnvironment(PromotionConfig(promotionId, promoResponse), promotionId)

\* lines 321-345: the tenants in listing order, none when the listing fails
listPromotions(response) ==
    IF response.kind # "ok" THEN <<>>
    ELSE [n \in 1..Len(response.fields) |->
            LET id == Str(response.fields[n].id)
                fields == response.fields[n].fields
            IN [id |-> id,
                name |-> OrElse(Get(fields, "name"), id),
                createdAt |-> OrElse(Get(fields, "createdAt"), Null),
                updatedAt |-> OrElse(Get(fields, "updatedAt"),
                                     OrElse(Get(fields, "createdAt"), Null))]]

\* what listing the collection can give
ListResponses(store) ==
    {[kind |-> "throws", fields |-> <<>>], [kind |-> "notok", fields |-> <<>>],
     [kind |-> "ok", fields |-> store]}

\* lines 369-371: the first rule of the configuration with this sheet name, 0 when none
MatchedRule(cfg, sheetName) ==
    LET rules == Get(cfg, "notificationRules")
        hits == IF rules.t # "arr" THEN {}
                ELSE {k \in 1..Len(rules.v) :
                        rules.v[k].t = "obj" /\ Get(rules.v[k], "sheetName") = sheetName}
    IN IF hits = {} THEN 0 ELSE CHOOSE k \in hits : \A m \in hits : k <= m

\* lines 364-367: the tenant's booking sheet
IsBookingSheet(cfg, sheetName) == Get(cfg, "bookingListSheet") = sheetName

\* lines 360-378: the entry pushed for a matching tenant, <<>> for any other
MatchEntry(promo, cfg, sheetName) ==
    LET rule == MatchedRule(cfg, sheetName)
        entry == [promotionId |-> promo.id,
                  config |-> cfg,
                  type |-> IF rule > 0 THEN "universal" ELSE "consultation",
                  ruleId |-> IF rule > 0 THEN Get(Get(cfg, "notificationRules").v[rule], "id")
                             ELSE Null,
                  updatedAt |-> OrElse(promo.updatedAt, OrElse(promo.createdAt, Str(<<>>)))]
    IN IF rule > 0 \/ IsBookingSheet(cfg, sheetName) THEN <<entry>> ELSE <<>>

\* a number that is not a number
NaN == [t |-> "nan"]

DigitValue(c) == CHOOSE d \in 0..9 : Digit(d) = c
IsDigit(c) == \E d \in 0..9 : Digit(d) = c

RECURSIVE ParseDigits(_, _)
ParseDigits(s, acc) == IF s = <<>> THEN acc
                       ELSE ParseDigits(Tail(s), 10 * acc + DigitValue(Head(s)))

\* new Date(x) as a number: the instant of a four-digit year, NaN for anything
\* else ('' among them)
DateOf(x) ==
    IF x.t = "str" /\ Len(x.v) = 4 /\ \A k \in 1..4 : IsDigit(x.v[k])
    THEN Num(ParseDigits(x.v, 0)) ELSE NaN

\* a - b on numbers
Minus(a, b) == IF a.t = "nan" \/ b.t = "nan" THEN NaN ELSE Num(a.v - b.v)

\* lines 392-396: the comparator given to sort
ByUpdatedAtDescending(a, b) == Minus(DateOf(b.updatedAt), DateOf(a.updatedAt))

\* Array.prototype.sort treats a comparator result of NaN as +0
SortCompare(a, b) ==
    LET v == ByUpdatedAtDescending(a, b) IN IF v.t = "nan" THEN 0 ELSE v.v

\* the sort of the runtime (V8) for arrays shorter than 64 elements: find the
\* run the array starts with, reverse it when it is descending, then insert each
\* later element by binary search

\* the length of the run that starts the array w, from its element idx on
RECURSIVE RunLength(_, _, _)
RunLength(w, idx, isDescending) ==
    IF idx > Len(w) THEN Len(w)
    ELSE LET order == SortCompare(w[idx], w[idx - 1])
         IN IF (isDescending /\ order >= 0) \/ (~isDescending /\ order < 0)
            THEN idx - 1
            ELSE RunLength(w, idx + 1, isDescending)

\* the place of pivot among the first elements of w: left and right count the
\* elements before the searched range and before its end
RECURSIVE BinarySearch(_, _, _, _)
BinarySearch(w, pivot, left, right) ==
    IF left >= right THEN left
    ELSE LET mid == left + ((right - left) \div 2)
         IN IF SortCompare(pivot, w[mid + 1]) < 0
            THEN BinarySearch(w, pivot, left, mid)
            ELSE BinarySearch(w, pivot, mid + 1, right)

\* insert the elements after the first start ones, one by one
RECURSIVE BinaryInsertionSort(_, _)
BinaryInsertionSort(w, start) ==
    IF start >= Len(w) THEN w
    ELSE LET pivot == w[start + 1]
             left == BinarySearch(w, pivot, 0, start)
         IN BinaryInsertionSort(SubSeq(w, 1, left) \o <<pivot>> \o SubSeq(w, left + 1, start)
                                  \o SubSeq(w, start + 2, Len(w)),
                                start + 1)

\* matches.sort(...)
ArraySort(w) ==
    IF Len(w) < 2 THEN w
    ELSE LET isDescending == SortCompare(w[2], w[1]) < 0
             run == RunLength(w, 3, isDescending)
             made == IF isDescending
                     THEN Reverse(SubSeq(w, 1, run)) \o SubSeq(w, run + 1, Len(w))
                     ELSE w
         IN BinaryInsertionSort(made, run)

\* lines 402-413: the match the legacy configuration gives, Null when it gives none
LegacyMatch(legacyConfig, sheetName) ==
    IF IsBookingSheet(legacyConfig, sheetName)
    THEN [promotionId |-> Str(<<"main">>), config |-> legacyConfig, type |-> "consultation"]
    ELSE IF MatchedRule(legacyConfig, sheetName) > 0
         THEN [promotionId |-> Str(<<"main">>), config |-> legacyConfig, type |-> "universal"]
         ELSE Null

(***************************************************************************)
(* api/webhook.js : resolving the tenant of a request (lines 40-65)        *)
(***************************************************************************)
\* a configuration sent along with the request
InjectedConfig == Obj([chatworkToken |-> Str(<<"tok-injected">>)])

\* the request body after line 38
Request(type, payload, injected, promotionId, sheetName) ==
    [type |-> type, data |-> payload, config |-> injected, promotionId |-> promotionId,
     sheetName |-> sheetName]

Requests ==
    {Request(Undef, Undef, Undef, Undef, Undef),
     Request(Str(<<"consultation">>), Obj(<<>>), Undef, Undef, Undef),
     Request(Undef, Obj([sheetName |-> Str(SheetA)]), Undef, Undef, Undef),
     Request(Str(<<"consultation">>), Obj([sheetName |-> Str(SheetA)]), Undef, Undef,
             Str(SheetOther)),
     Request(Undef, Obj([sheetName |-> Str(SheetA)]), Undef, Str(TenantId(1)), Undef),
     Request(Str(<<"consultation">>), Undef, Undef, Str(TenantId(9)), Undef),
     Request(Undef, Obj([sheetName |-> Str(SheetA)]), InjectedConfig, Str(TenantId(1)), Undef),
     Request(Str(<<"consultation">>), Undef, InjectedConfig, Undef, Str(SheetOther))}

\* the handlers of Spec stand still while another procedure runs
HandlerIdle ==
    /\ config = [notificationRules |-> Undef]
    /\ data = Event(Undef, Undef)
    /\ pc = "idle"
    /\ matchedRules = <<>>
    /\ ruleIdx = 0
    /\ notifIdx = 0
    /\ results = [notifications |-> <<>>, tasks |-> <<>>]
    /\ calls = <<>>
    /\ error = ""
    /\ returned = NoReturn

handlerVars == <<config, data, pc, matchedRules, ruleIdx, notifIdx, results, calls, error,
                 returned>>

InitTenancy ==
    /\ HandlerIdle
    /\ AddedIdle
    /\ rendering = Idle
    /\ booking = Idle
    /\ filtering = Idle
    /\ \E store \in Stores, legacy \in LegacyDocuments, req \in Requests :
         tenancy = [pc |-> "start", store |-> store, legacy |-> legacy, req |-> req,
                    type |-> req.type, targetSheetName |-> Null,
                    resolvedConfig |-> Null, resolvedPromotionId |-> Undef,
                    fetched |-> "none", promotions |-> <<>>, idx |-> 0,
                    matches |-> <<>>, match |-> Null, thrown |-> ""]

\* line 40
TargetSheetName(req) ==
    OrElse(req.sheetName,
           OrElse(IF req.data.t = "obj" THEN Get(req.data, "sheetName") ELSE Undef,
                  IF req.type = Str(<<"consultation">>) THEN DefaultBookingListSheet ELSE Null))

\* lines 40-49: an injected configuration is used as it is; else the tenant id,
\* else the sheet name decides where the configuration comes from
ResolveStart ==
    /\ tenancy.pc = "start"
    /\ LET req == tenancy.req
           target == TargetSheetName(req)
           injected == OrElse(req.config, Null)
       IN tenancy' = [tenancy EXCEPT
            !.targetSheetName = target,
            !.resolvedConfig = injected,
            !.resolvedPromotionId = req.promotionId,
            !.pc = IF Truthy(injected) THEN "fallback"
                   ELSE IF Truthy(req.promotionId) THEN "byId"
                   ELSE IF Truthy(target) THEN "list"
                   ELSE "fallback"]
    /\ UNCHANGED <<handlerVars, rendering, booking, filtering, added>>

\* reading a property of null or undefined ends the request with a TypeError
Throws(message) == [tenancy EXCEPT !.pc = "thrown", !.thrown = message]

\* which document the returned configuration was read from
FetchedFrom(promotionId, promoResponse, legacyResponse) ==
    IF ~NeedsLegacy(promotionId, promoResponse) THEN "own"
    ELSE IF legacyResponse.kind = "ok" THEN "legacy" ELSE "nothing"

\* line 48: getConfig(promotionId)
GetConfigById ==
    /\ tenancy.pc = "byId"
    /\ \E promoResponse \in Responses(DocumentOf(tenancy.store, tenancy.req.promotionId)),
          legacyResponse \in Responses(tenancy.legacy) :
         tenancy' = [tenancy EXCEPT
            !.resolvedConfig = getConfig(tenancy.req.promotionId, promoResponse, legacyResponse),
            !.fetched = FetchedFrom(tenancy.req.promotionId, promoResponse, legacyResponse),
            !.pc = "fallback"]
    /\ UNCHANGED <<handlerVars, rendering, booking, filtering, added>>

\* lines 50, 355: findPromotionBySheetName lists the tenants
ListPromotions ==
    /\ tenancy.pc = "list"
    /\ \E response \in ListResponses(tenancy.store) :
         tenancy' = [tenancy EXCEPT !.promotions = listPromotions(response),
                                    !.idx = 1, !.pc = "scan"]
    /\ UNCHANGED <<handlerVars, rendering, booking, filtering, added>>

\* lines 358-379: one tenant of the loop
ScanPromotion ==
    /\ tenancy.pc = "scan"
    /\ tenancy.idx <= Len(tenancy.promotions)
    /\ LET promo == tenancy.promotions[tenancy.idx]
       IN \E promoResponse \in Responses(DocumentOf(tenancy.store, promo.id)),
             legacyResponse \in Responses(tenancy.legacy) :
            LET cfg == getConfig(promo.id, promoResponse, legacyResponse)
            IN IF IsNullish(cfg)
               THEN tenancy' = Throws("TypeError: reading bookingListSheet")
               ELSE tenancy' = [tenancy EXCEPT
                      !.matches = @ \o MatchEntry(promo, cfg, tenancy.targetSheetName),
                      !.idx = @ + 1]
    /\ UNCHANGED <<handlerVars, rendering, booking, filtering, added>>

\* webhook.js lines 51-56: what the request takes from the match
TakeMatch(match) ==
    [tenancy EXCEPT
       !.match = match,
       !.resolvedConfig = IF match = Null THEN @ ELSE match.config,
       !.resolvedPromotionId = IF match = Null THEN @ ELSE match.promotionId,
       !.type = IF match # Null /\ match.type = "universal" /\ ~Truthy(@)
                THEN Str(<<"universal">>) ELSE @,
       !.pc = "fallback"]

\* lines 381-399: several tenants may match; the first of the sorted matches is returned
SortMatches ==
    /\ tenancy.pc = "scan"
    /\ tenancy.idx > Len(tenancy.promotions)
    /\ Len(tenancy.matches) > 0
    /\ LET first == ArraySort(tenancy.matches)[1]
       IN tenancy' = TakeMatch([promotionId |-> first.promotionId, config |-> first.config,
                                type |-> first.type])
    /\ UNCHANGED <<handlerVars, rendering, booking, filtering, added>>

\* lines 401-415: no tenant matches; the legacy configuration is asked
LegacyLookup ==
    /\ tenancy.pc = "scan"
    /\ tenancy.idx > Len(tenancy.promotions)
    /\ Len(tenancy.matches) = 0
    /\ \E legacyResponse \in Responses(tenancy.legacy) :
         LET legacyConfig == getConfig(Null, legacyResponse, legacyResponse)
         IN IF IsNullish(legacyConfig)
            THEN tenancy' = Throws("TypeError: reading bookingListSheet")
            ELSE tenancy' = TakeMatch(LegacyMatch(legacyConfig, tenancy.targetSheetName))
    /\ UNCHANGED <<handlerVars, rendering, booking, filtering, added>>

\* the request goes on without any configuration
FallbackToLegacy_Skipped ==
    /\ tenancy.pc = "fallback"
    /\ tenancy' = [tenancy EXCEPT !.pc = "resolved"]
    /\ UNCHANGED <<handlerVars, rendering, booking, filtering, added>>

\* lines 60-65: without a configuration so far, getConfig() gives the legacy one
FallbackToLegacy ==
    /\ tenancy.pc = "fallback"
    /\ IF Truthy(tenancy.resolvedConfig)
       THEN tenancy' = [tenancy EXCEPT !.pc = "resolved"]
       ELSE \E legacyResponse \in Responses(tenancy.legacy) :
              LET cfg == getConfig(Null, legacyResponse, legacyResponse)
              IN IF IsNullish(cfg)
                 THEN tenancy' = Throws("TypeError: reading _promotionId")
                 ELSE tenancy' = [tenancy EXCEPT
                        !.resolvedConfig = cfg,
                        !.resolvedPromotionId = Get(cfg, "_promotionId"),
                        !.pc = "resolved"]
    /\ UNCHANGED <<handlerVars, rendering, booking, filtering, added>>

NextTenancy ==
    \/ ResolveStart
    \/ GetConfigById
    \/ ListPromotions
    \/ ScanPromotion
    \/ SortMatches
    \/ LegacyLookup
    \/ FallbackToLegacy

SpecTenancy == InitTenancy /\ [][NextTenancy]_vars

(***************************************************************************)
(* Properties of tenant resolution                                         *)
(***************************************************************************)
Resolved == tenancy.pc = "resolved"

\* C11: tenant resolution never fails: whatever tenant id and sheet name the
\* request carries and whatever the fetches of the configuration store give,
\* the resolution step never throws, and it ends with a configuration that is
\* not null
C11_ResolutionNeverFails ==
    /\ tenancy.pc # "thrown"
    /\ Resolved => tenancy.resolvedConfig.t = "obj"

\* an unknown tenant id, no legacy document to read: only defaults are left
C11_Witness ==
    /\ Resolved
    /\ tenancy.req.config = Undef
    /\ tenancy.req.promotionId = Str(TenantId(9))
    /\ tenancy.legacy = Null
    /\ Get(tenancy.resolvedConfig, "staffListSheet") = Env.STAFF_LIST_SHEET

\* the positions of the matches that carry a readable timestamp
Dated(matches) == {k \in 1..Len(matches) : DateOf(matches[k].updatedAt).t = "num"}

\* the match that should win: the first of those with the latest timestamp, the
\* first of all when none has a timestamp
MostRecent(matches) ==
    LET latest == {k \in Dated(matches) :
                     \A m \in Dated(matches) :
                        DateOf(matches[k].updatedAt).v >= DateOf(matches[m].updatedAt).v}
        among == IF latest = {} THEN 1..Len(matches) ELSE latest
    IN CHOOSE k \in among : \A m \in among : k <= m

\* C12: when several tenants match the sheet name, the tenant returned is the
\* one with the most recent update timestamp, the first in the list among equal
\* or missing timestamps
C12_MostRecentMatchWins ==
    (tenancy.pc \in {"fallback", "resolved"} /\ Len(tenancy.matches) > 0)
        => tenancy.match.promotionId
              = tenancy.matches[MostRecent(tenancy.matches)].promotionId

\* what the tenant stores under its id, {} when it stores nothing
OwnStored(store, id) ==
    LET document == DocumentOf(store, id)
    IN IF document = Null THEN Obj(<<>>) ELSE OrElse(Get(document, "config"), document)

ByTenantId == Resolved /\ Truthy(tenancy.req.promotionId)

MaxTokens == 2

Taro == <<"T", "a", "r", "o">>
DateOnly == <<"2", "0", "2", "6", "/", "1", "/", "3", "1">> \o DateOnlySuffix

\* the tokens a template is made of
TokenSamples == <<Lit(<<"H", "i", " ">>), Key("name"), Key("status"), Key("tel(x)"),
                  Nested("zip")>>

\* a template, given by the positions in TokenSamples of its tokens
TemplateOf(picks) == Str([n \in 1..Len(picks) |-> TokenSamples[picks[n]]])

\* every template of at most MaxTokens tokens, the empty one among them
TemplatePicks == SeqsUpTo(1..Len(TokenSamples), MaxTokens)

\* the data maps: keys present or absent, values of every shape
DataMaps ==
    {[key \in {} |-> Undef],
     [name |-> Str(Taro)],
     [name |-> Undef, status |-> Str(Ok)],
     ("tel(x)" :> Str(<<"0", "9", "0">>)) @@ [status |-> Str(Ok)],
     ("name(" :> Str(Ok)) @@ [name |-> Str(Taro)],
     [allFields |-> Obj([zip |-> Str(<<"1", "2", "3">>)]), name |-> Str(DateOnly)],
     [allFields |-> Null, name |-> Num(0)]}

InitRendering ==
    /\ HandlerIdle
    /\ AddedIdle
    /\ tenancy = Idle
    /\ booking = Idle
    /\ filtering = Idle
    /\ \E picks \in TemplatePicks, map \in DataMaps, missing \in BOOLEAN :
         /\ missing => picks = <<>>
         /\ rendering = [pc |-> "call",
                         template |-> IF missing THEN Undef ELSE TemplateOf(picks),
                         data |-> map,
                         result |-> Returned(<<>>)]

\* the call formatMessage(template, data)
FormatMessage ==
    /\ rendering.pc = "call"
    /\ rendering' = [rendering EXCEPT
         !.pc = "done",
         !.result = formatMessage(rendering.template, rendering.data)]
    /\ UNCHANGED <<handlerVars, tenancy, booking, filtering, added>>

NextRendering == FormatMessage

SpecRendering == InitRendering /\ [][NextRendering]_vars

(***************************************************************************)
(* Properties of formatMessage                                             *)
(***************************************************************************)
Rendered == rendering.pc = "done" /\ Truthy(rendering.template)

\* the keys of the {key} tokens of the template
TemplateKeys(template) ==
    {template.v[n].v : n \in {m \in 1..Len(template.v) : template.v[m].k = "key"}}

\* the text holds the token {key} as it was written
HoldsToken(text, key) == IndexOf(text, <<"{", key, "}">>) > 0

\* C14: each {key} token whose key is in the data is replaced by the key's
\* value: the call returns, and its output holds the literal token of no key
\* of the data, whatever characters the key is made of
C14_KnownKeysAreReplaced ==
    Rendered =>
        /\ ~rendering.result.throws
        /\ \A key \in DOMAIN rendering.data : ~HoldsToken(rendering.result.v, key)

\* C15: a {key} token whose key is absent from the data renders as the empty
\* string: the output does not hold the literal token
C15_AbsentKeyRendersEmpty ==
    (Rendered /\ ~rendering.result.throws) =>
        \A key \in TemplateKeys(rendering.template) \ DOMAIN rendering.data :
            ~HoldsToken(rendering.result.v, key)

(***************************************************************************)
(* api/handlers/consultation.js : the staff matcher (lines 78-122)         *)
(***************************************************************************)
\* most data rows of a roster sheet
MaxRosterRows == 2

\* Characters outside ASCII are written by name: "fw0" .. "fw9" are the
\* full-width digits, "fw(" "fw)" "fw:" the full-width brackets and colon,
\* "wavedash" U+301C, "tildeop" U+223C, "fwtilde" U+FF5E, "ideosp" the
\* ideographic space U+3000, "nen" "gatsu" "nichi" "ji" the signs for year,
\* month, day and hour.
FullWidthDigit(d) == CASE d = 0 -> "fw0" [] d = 1 -> "fw1" [] d = 2 -> "fw2" [] d = 3 -> "fw3"
                       [] d = 4 -> "fw4" [] d = 5 -> "fw5" [] d = 6 -> "fw6" [] d = 7 -> "fw7"
                       [] d = 8 -> "fw8" [] OTHER -> "fw9"

IsFullWidthDigit(c) == \E d \in 0..9 : FullWidthDigit(d) = c

\* lines 85-89: the replacements of one character
NormalizeChar(c) ==
    IF IsFullWidthDigit(c) THEN Digit(CHOOSE d \in 0..9 : FullWidthDigit(d) = c)
    ELSE CASE c = "fw(" -> "("
           [] c = "fw)" -> ")"
           [] c = "fw:" -> ":"
           [] c \in {"wavedash", "tildeop", "fwtilde", "~"} -> "-"
           [] OTHER -> c

\* line 90: \s and U+3000
IsWhitespace(c) == c \in {" ", "\t", "\n", "ideosp"}

\* the replacements leave full-width digits as they are
NormalizeText_KeepsFullWidthDigits(s) ==
    SelectSeq(s, LAMBDA c : ~IsWhitespace(c))

\* lines 84-90 on the characters of a string; trim is covered by the removal of
\* all whitespace
NormalizeText(s) ==
    SelectSeq([n \in 1..Len(s) |-> NormalizeChar(s[n])], LAMBDA c : ~IsWhitespace(c))

\* lines 81-91: normalize(val), '' for a falsy value
normalize(val) == IF ~Truthy(val) THEN <<>> ELSE NormalizeText(String(val))

\* row[idx] with idx counted from 0: undefined beyond the end of the row
Cell(row, idx) == IF idx >= 0 /\ idx < Len(row) THEN row[idx + 1] ELSE Undef

\* Array.prototype.findIndex, given for each element whether the callback
\* accepts it: the index (from 0) of the first accepted one, -1 when there is none
FindIndex(accepted) ==
    LET hits == {k \in 1..Len(accepted) : accepted[k]}
    IN IF hits = {} THEN 0 - 1 ELSE (CHOOSE k \in hits : \A m \in hits : k <= m) - 1

DateTimeLabel == <<"D", "a", "t", "e", "T", "i", "m", "e">>
NichijiLabel == <<"nichi", "ji">>

\* lines 97-101
DateTimeColIdx(headers) ==
    FindIndex([k \in 1..Len(headers) |->
                 Truthy(headers[k]) /\ (IndexOf(normalize(headers[k]), NichijiLabel) > 0
                                        \/ IndexOf(normalize(headers[k]), DateTimeLabel) > 0)])

\* lines 102-105
ConsultantColIdx(headers, consultantName) ==
    FindIndex([k \in 1..Len(headers) |->
                 Truthy(headers[k]) /\ normalize(headers[k]) = normalize(consultantName)])

\* the loop goes on after a hit: the last row with the event's date wins
RECURSIVE ScanRows_LastHit(_, _, _, _, _)
ScanRows_LastHit(staffList, i, dateTimeColIdx, consultantColIdx, targetDateNormalized) ==
    IF i >= Len(staffList) THEN Null
    ELSE LET later == ScanRows_LastHit(staffList, i + 1, dateTimeColIdx, consultantColIdx,
                                       targetDateNormalized)
         IN IF later # Null THEN later
            ELSE IF normalize(Cell(staffList[i + 1], dateTimeColIdx)) = targetDateNormalized
                 THEN Cell(staffList[i + 1], consultantColIdx)
                 ELSE Null

\* lines 111-121 from row i on (rows counted from 0): the consultant cell of the
\* first row with the event's date, Null when the loop ends without one
RECURSIVE ScanRows(_, _, _, _, _)
ScanRows(staffList, i, dateTimeColIdx, consultantColIdx, targetDateNormalized) ==
    IF i >= Len(staffList) THEN Null
    ELSE IF normalize(Cell(staffList[i + 1], dateTimeColIdx)) = targetDateNormalized
         THEN Cell(staffList[i + 1], consultantColIdx)
         ELSE ScanRows(staffList, i + 1, dateTimeColIdx, consultantColIdx, targetDateNormalized)

\* lines 78-122 once the sheet is read: matchedStaff
MatchStaff(staffList, dateTime, consultantName) ==
    IF staffList = <<>> THEN Null
    ELSE LET headers == staffList[1]
             dateTimeColIdx == DateTimeColIdx(headers)
             consultantColIdx == ConsultantColIdx(headers, consultantName)
         IN IF dateTimeColIdx >= 0 /\ consultantColIdx >= 0
            THEN ScanRows(staffList, 1, dateTimeColIdx, consultantColIdx, normalize(dateTime))
            ELSE Null

(***************************************************************************)
(* api/handlers/consultation.js : handleConsultationBooking                *)
(***************************************************************************)
\* lines 63-64: the columns written when the configuration names none
StaffColumn == 8
ViewerUrlColumn == 15

SlashDate == <<"2", "0", "2", "6", "/", "1", "/", "3", "1">>
KanjiDate == <<"2", "0", "2", "6", "nen", "1", "gatsu", "3", "1", "nichi">>
FwKanjiDate == <<"fw2", "fw0", "fw2", "fw6", "nen", "fw1", "gatsu", "fw3", "fw1", "nichi">>
FwSlashDate == <<"fw2", "fw0", "fw2", "fw6", "/", "fw1", "/", "fw3", "fw1", "ideosp">>
OtherDate == <<"2", "0", "2", "6", "/", "2", "/", "1">>

Sato == <<"S", "a", "t", "o">>
Kato == <<"K", "a", "t", "o">>
Abe == <<"A", "b", "e">>
Slot1 == <<"C", "1">>

\* header rows: date column and consultant slot, the same in another script,
\* and a header without the event's slot
HeaderRows == {<<Str(DateTimeLabel), Str(Slot1)>>,
               <<Str(<<"C", "fw1", " ">>), Str(<<"yoyaku">> \o NichijiLabel)>>,
               <<Str(DateTimeLabel), Str(<<"C", "2">>)>>}

\* data rows of the first header's layout, the last one without a consultant cell
RowSamples == {<<Str(FwKanjiDate), Str(Sato)>>,
               <<Str(FwSlashDate), Str(Kato)>>,
               <<Str(SlashDate), Str(Abe)>>,
               <<Str(OtherDate), Str(Sato)>>,
               <<Str(SlashDate)>>}

\* the same row under the second header's layout: the two columns change places
Swapped(row) == IF Len(row) = 2 THEN <<row[2], row[1]>> ELSE <<Str(<<>>), row[1]>>

\* the values of the staff list sheet: no row at all, or a header row and at
\* most MaxRosterRows data rows
Rosters ==
    {<<>>} \cup
    {<<h>> \o [n \in 1..Len(rows) |-> IF h[1] = Str(DateTimeLabel) THEN rows[n]
                                       ELSE Swapped(rows[n])] :
        h \in HeaderRows, rows \in SeqsUpTo(RowSamples, MaxRosterRows)}

\* what reading a sheet can give: an error (readSheet throws on a not-ok answer) or the values
SheetResponses(sheets) ==
    {[kind |-> "throws", message |-> "Sheets API error: 404", values |-> <<>>],
     [kind |-> "throws", message |-> "Sheets API error: 500", values |-> <<>>]}
    \cup {[kind |-> "ok", message |-> "", values |-> v] : v \in sheets}

\* the staff chat sheet: name and [To:id] mention of each member
StaffChatLists == {<<>>, <<<<Str(Kato), Str(<<"[To:2]">>)>>, <<Str(Sato), Str(<<"[To:1]">>)>>>>}

\* the configurations handed to the handler: a tenant's configuration as
\* getConfig returns it, and an injected one that names no column mapping
BookingConfigs ==
    {MergeWithEnvironment(StoredConfig(TenantId(1), Undef, Str(SheetA)), Str(TenantId(1))),
     Obj([chatworkToken |-> Str(<<"tok-injected">>), roomId |-> Str(<<"room-injected">>),
          bookingColumnMapping |-> Arr(<<>>)])}

\* the booking events: with and without a row index, the date in two notations,
\* the original fields with a plain key and with a key that is no valid pattern
BookingEvents ==
    {[rowIndex |-> r, clientName |-> Str(Taro), email |-> Str(<<"t@x">>), dateTime |-> Str(d),
      staff |-> Str(Slot1), allFields |-> a] :
        r \in {Null, Num(5)}, d \in {SlashDate, KanjiDate},
        a \in {Obj([kana |-> Str(Taro)]), Obj(("name(" :> Str(Ok)) @@ [kana |-> Str(Taro)])}}

InitBooking ==
    /\ HandlerIdle
    /\ AddedIdle
    /\ tenancy = Idle
    /\ rendering = Idle
    /\ filtering = Idle
    /\ \E cfg \in BookingConfigs, event \in BookingEvents :
         booking = [pc |-> "roster", config |-> cfg, data |-> event,
                    staffList |-> <<>>, rosterRead |-> "no", matchedStaff |-> Null,
                    chatworkAccountId |-> Null, viewerUrl |-> Null,
                    calls |-> <<>>, error |-> "", returned |-> NoReturn]

\* a remote call the handler has started; text is the message or the row sent
BookingCall(op, target, text) == [op |-> op, target |-> target, text |-> text]

\* line 62: bookingColumnMapping = []
BookingColumnMapping(cfg) ==
    IF Get(cfg, "bookingColumnMapping").t = "undefined" THEN Arr(<<>>)
    ELSE Get(cfg, "bookingColumnMapping")

\* the handler throws: the webhook layer takes over
BookingThrows(message) == [booking EXCEPT !.pc = "thrown", !.returned = Thrown(message)]

\* lines 76-122: the staff list is read and searched
ReadStaffList ==
    /\ booking.pc = "roster"
    /\ \E response \in SheetResponses(Rosters) :
         IF response.kind = "throws"
         THEN booking' = [booking EXCEPT !.pc = "rosterCatch", !.rosterRead = "failed",
                                         !.error = response.message]
         ELSE booking' = [booking EXCEPT
                 !.pc = "append",
                 !.rosterRead = "ok",
                 !.staffList = response.values,
                 !.matchedStaff = MatchStaff(response.values, booking.data.dateTime,
                                             booking.data.staff)]
    /\ UNCHANGED <<handlerVars, tenancy, rendering, filtering, added>>

\* lines 123-132: the failure is reported and the handler goes on
ReportRosterFailure ==
    /\ booking.pc = "rosterCatch"
    /\ booking' = [booking EXCEPT
         !.pc = "append",
         !.calls = Append(@, BookingCall("notifyError",
                                         IF booking.error = "Sheets API error: 404"
                                         THEN <<"SHEET_NOT_FOUND">> ELSE <<"UNKNOWN">>,
                                         <<"Failed to read Staff List sheet">>))]
    /\ UNCHANGED <<handlerVars, tenancy, rendering, filtering, added>>

\* the keys of a field map, none for anything that is no object
Spread(x) == IF x.t = "obj" THEN x.v ELSE [key \in {} |-> Undef]

\* lines 149-156: the data a row template is rendered with; a later entry of
\* the object literal overrides an earlier one
RowData(event, matchedStaff) ==
    [allFields |-> event.allFields]
    @@ Spread(event.allFields)
    @@ [consultant |-> event.staff,
        matchedStaff |-> OrElse(matchedStaff, Str(<<>>)),
        staff |-> OrElse(matchedStaff, event.staff)]
    @@ event

\* lines 148-157: the rendered cells, or the first error of formatMessage
RECURSIVE RenderCells(_, _)
RenderCells(templates, map) ==
    IF templates = <<>> THEN Returned(<<>>)
    ELSE LET cell == formatMessage(Head(templates), map)
             rest == RenderCells(Tail(templates), map)
         IN IF cell.throws THEN cell
            ELSE IF rest.throws THEN rest
            ELSE Returned(<<cell.v>> \o rest.v)

\* lines 139-167: without a row index and with a column mapping, the row is
\* rendered and appendRow is called
BuildRow ==
    /\ booking.pc = "append"
    /\ LET mapping == BookingColumnMapping(booking.config)
           row == RenderCells(mapping.v, RowData(booking.data, booking.matchedStaff))
       IN IF Truthy(booking.data.rowIndex) \/ ~Truthy(mapping) \/ Len(mapping.v) = 0
          THEN booking' = [booking EXCEPT !.pc = "fallback", !.staffList = <<>>]
          ELSE IF row.throws
          THEN booking' = [booking EXCEPT !.pc = "appendCatch", !.staffList = <<>>,
                                          !.error = row.v]
          ELSE booking' = [booking EXCEPT
                  !.pc = "appending", !.staffList = <<>>,
                  !.calls = Append(@, BookingCall("appendRow",
                                                  String(Get(booking.config, "bookingListSheet")),
                                                  row.v))]
    /\ UNCHANGED <<handlerVars, tenancy, rendering, filtering, added>>

\* what appendRow can give: the range of the new row, an answer without a range, an error
AppendResponses == {[kind |-> "ok", row |-> Num(7)], [kind |-> "ok", row |-> Undef],
                    [kind |-> "throws", row |-> Undef]}

\* lines 167-180: the row index is taken from the answer
AppendRowSettles ==
    /\ booking.pc = "appending"
    /\ \E response \in AppendResponses :
         IF response.kind = "throws"
         THEN booking' = [booking EXCEPT !.pc = "appendCatch", !.error = "Sheets API error: 500"]
         ELSE booking' = [booking EXCEPT
                 !.pc = "fallback",
                 !.data = [@ EXCEPT !.rowIndex = IF Truthy(response.row) THEN response.row
                                                 ELSE @]]
    /\ UNCHANGED <<handlerVars, tenancy, rendering, filtering, added>>

\* lines 180-189
ReportAppendFailure ==
    /\ booking.pc = "appendCatch"
    /\ booking' = [booking EXCEPT
         !.pc = "fallback",
         !.calls = Append(@, BookingCall("notifyError", <<"UNKNOWN">>,
                                         <<"Failed to append new row">>))]
    /\ UNCHANGED <<handlerVars, tenancy, rendering, filtering, added>>

Unassigned == <<"[", "u", "n", "a", "s", "s", "i", "g", "n", "e", "d", "]">>

\* line 198
FallbackTemplate ==
    Str(<<Lit(Unassigned \o <<"\n", "d", "a", "t", "e", ":">>), Key("dateTime"),
          Lit(<<"\n", "c", "l", "i", "e", "n", "t", ":">>), Key("clientName"),
          Lit(<<"\n", "c", "o", "n", "s", "u", "l", "t", "a", "n", "t", ":">>),
          Key("consultant"), Lit(<<"\n", "\n", "a", "s", "s", "i", "g", "n">>)>>)

\* lines 199-204
FallbackData(event) ==
    [dateTime |-> event.dateTime, clientName |-> event.clientName, consultant |-> event.staff]
    @@ Spread(event.allFields)

\* lines 193-207: without a matched staff member the fallback message is
\* rendered, outside any try, and sent to the tenant's room
SendFallback ==
    /\ booking.pc = "fallback"
    /\ LET message == formatMessage(FallbackTemplate, FallbackData(booking.data))
       IN IF Truthy(booking.matchedStaff)
          THEN booking' = [booking EXCEPT !.pc = "staffCell"]
          ELSE IF message.throws THEN booking' = BookingThrows(message.v)
          ELSE booking' = [booking EXCEPT
                  !.pc = "fallbackSending",
                  !.calls = Append(@, BookingCall("sendMessage",
                                                  String(Get(booking.config, "roomId")),
                                                  message.v))]
    /\ UNCHANGED <<handlerVars, tenancy, rendering, filtering, added>>

\* lines 206-210: a failure of the fallback message is logged only
FallbackSendSettles ==
    /\ booking.pc = "fallbackSending"
    /\ \E outcome \in {"ok", "throws"} : booking' = [booking EXCEPT !.pc = "staffCell"]
    /\ UNCHANGED <<handlerVars, tenancy, rendering, filtering, added>>

\* lines 222-224: with a row index the staff cell is written
UpdateStaffCell ==
    /\ booking.pc = "staffCell"
    /\ IF Truthy(booking.data.rowIndex)
       THEN booking' = [booking EXCEPT
               !.pc = "staffCellWriting",
               !.calls = Append(@, BookingCall("updateCell", NumToString(StaffColumn),
                                               String(booking.matchedStaff)))]
       ELSE booking' = [booking EXCEPT !.pc = "staffChat"]
    /\ UNCHANGED <<handlerVars, tenancy, rendering, filtering, added>>

\* lines 224-227: a failure of the write is logged with console.warn only
StaffCellSettles ==
    /\ booking.pc = "staffCellWriting"
    /\ \E outcome \in {"ok", "throws"} :
         booking' = [booking EXCEPT
            !.pc = "viewer",
            !.calls = IF outcome = "ok" THEN @
                      ELSE Append(@, BookingCall("console.warn", <<>>,
                                                 <<"Failed to update staff name cell">>))]
    /\ UNCHANGED <<handlerVars, tenancy, rendering, filtering, added>>

\* lines 27-32: the viewer address of the client
generateViewerUrl(email, name) ==
    <<"/", "v", "i", "e", "w", "e", "r", "/", "%">> \o String(OrElse(email, name))

\* lines 231-236: the viewer link is written
WriteViewerUrl ==
    /\ booking.pc = "viewer"
    /\ LET url == generateViewerUrl(booking.data.email, booking.data.clientName)
       IN booking' = [booking EXCEPT
            !.pc = "viewerWriting",
            !.viewerUrl = Str(url),
            !.calls = Append(@, BookingCall("updateCell", NumToString(ViewerUrlColumn),
                                            <<"=", "H", "Y", "P", "E", "R", "L", "I", "N", "K",
                                              "(">> \o url \o <<")">>))]
    /\ UNCHANGED <<handlerVars, tenancy, rendering, filtering, added>>

\* lines 236-245: a failure of the write is reported and the handler goes on
ViewerUrlSettles ==
    /\ booking.pc = "viewerWriting"
    /\ \E outcome \in {"ok", "throws"} :
         booking' = [booking EXCEPT
            !.pc = "staffChat",
            !.calls = IF outcome = "ok" THEN @
                      ELSE Append(@, BookingCall("notifyError", <<"UNKNOWN">>,
                                                 <<"Failed to write Viewer URL to Column O">>))]
    /\ UNCHANGED <<handlerVars, tenancy, rendering, filtering, added>>

\* lines 276, 297: the template used when the configuration names none
DefaultConsultationTemplate ==
    Str(<<Lit(<<"[", "b", "o", "o", "k", "i", "n", "g", "]", "\n", "d", "a", "t", "e", ":">>),
          Key("dateTime"), Lit(<<"\n", "c", "l", "i", "e", "n", "t", ":">>), Key("clientName"),
          Lit(<<"\n", "s", "t", "a", "f", "f", ":">>), Key("matchedStaff")>>)

\* lines 277-284, 298-305
NotificationData(event, matchedStaff) ==
    [dateTime |-> event.dateTime, clientName |-> event.clientName, consultant |-> event.staff,
     matchedStaff |-> matchedStaff, staff |-> matchedStaff]
    @@ Spread(event.allFields)

\* lines 263-269: the mention of the matched staff member, Null when the list has none
ChatworkAccountId(staffChatList, matchedStaff) ==
    LET hits == {k \in 1..Len(staffChatList) : Cell(staffChatList[k], 0) = matchedStaff}
    IN IF hits = {} THEN Null
       ELSE Cell(staffChatList[CHOOSE k \in hits : \A m \in hits : k <= m], 1)

\* lines 249-308: the staff chat sheet is read; the notification is rendered,
\* outside any try, with the mention in front when there is one, and sent
ReadStaffChat ==
    /\ booking.pc = "staffChat"
    /\ \E response \in SheetResponses(StaffChatLists) :
         IF response.kind = "throws"
         THEN booking' = [booking EXCEPT !.pc = "staffChatCatch", !.error = response.message]
         ELSE LET id == ChatworkAccountId(response.values, booking.matchedStaff)
                  message == formatMessage(OrElse(Get(booking.config, "consultationTemplate"),
                                                  DefaultConsultationTemplate),
                                           NotificationData(booking.data, booking.matchedStaff))
              IN IF message.throws THEN booking' = BookingThrows(message.v)
                 ELSE booking' = [booking EXCEPT
                        !.pc = IF Truthy(id) THEN "mentionSending" ELSE "plainSending",
                        !.chatworkAccountId = id,
                        !.calls = Append(@, BookingCall("sendMessage",
                                     String(Get(booking.config, "roomId")),
                                     IF Truthy(id) THEN String(id) \o <<"\n">> \o message.v
                                     ELSE message.v))]
    /\ UNCHANGED <<handlerVars, tenancy, rendering, filtering, added>>

\* lines 252-261: the failure is reported and thrown again
ReportStaffChatFailure ==
    /\ booking.pc = "staffChatCatch"
    /\ booking' = [BookingThrows(booking.error) EXCEPT
         !.calls = Append(@, BookingCall("notifyError", <<"SHEET_NOT_FOUND">>,
                                         <<"Failed to read Staff Chat sheet">>))]
    /\ UNCHANGED <<handlerVars, tenancy, rendering, filtering, added>>

\* line 292, 323
BookingResult == Returned([matched |-> TRUE, notified |-> TRUE, staff |-> booking.matchedStaff,
                           viewerUrl |-> booking.viewerUrl])

\* lines 286-292: without a mention a failure of the message is logged only
PlainSendSettles ==
    /\ booking.pc = "plainSending"
    /\ \E outcome \in {"ok", "throws"} :
         booking' = [booking EXCEPT !.pc = "done", !.returned = BookingResult]
    /\ UNCHANGED <<handlerVars, tenancy, rendering, filtering, added>>

\* lines 310-323: with a mention a failure of the message is reported and thrown
MentionSendSettles ==
    /\ booking.pc = "mentionSending"
    /\ \E outcome \in {"ok", "throws"} :
         IF outcome = "ok"
         THEN booking' = [booking EXCEPT !.pc = "done", !.returned = BookingResult]
         ELSE booking' = [BookingThrows("Chatwork API error") EXCEPT
                 !.calls = Append(@, BookingCall("notifyError", <<"UNKNOWN">>,
                                                 <<"Failed to send Chatwork notification">>))]
    /\ UNCHANGED <<handlerVars, tenancy, rendering, filtering, added>>

NextBooking ==
    \/ ReadStaffList
    \/ ReportRosterFailure
    \/ BuildRow
    \/ AppendRowSettles
    \/ ReportAppendFailure
    \/ SendFallback
    \/ FallbackSendSettles
    \/ UpdateStaffCell
    \/ StaffCellSettles
    \/ WriteViewerUrl
    \/ ViewerUrlSettles
    \/ ReadStaffChat
    \/ ReportStaffChatFailure
    \/ PlainSendSettles
    \/ MentionSendSettles

SpecBooking == InitBooking /\ [][NextBooking]_vars

(***************************************************************************)
(* Properties of the staff matcher and of the consultation handler         *)
(***************************************************************************)
\* the staff list has been read and searched, and nothing else has happened
Searched == booking.pc = "append" /\ booking.rosterRead = "ok"

\* both columns of the search were found in the header row
ColumnsFound ==
    /\ booking.staffList # <<>>
    /\ DateTimeColIdx(booking.staffList[1]) >= 0
    /\ ConsultantColIdx(booking.staffList[1], booking.data.staff) >= 0

RosterDate(k) == Cell(booking.staffList[k], DateTimeColIdx(booking.staffList[1]))
RosterConsultant(k) ==
    Cell(booking.staffList[k], ConsultantColIdx(booking.staffList[1], booking.data.staff))

\* the first data row of the roster carries the date d, the event the date "2026/1/31"
FirstRowDated(d) ==
    /\ Searched
    /\ ColumnsFound
    /\ Len(booking.staffList) >= 2
    /\ RosterDate(2) = Str(d)
    /\ booking.data.dateTime = Str(SlashDate)

\* C16: a roster date in full-width digits with the year, month and day signs
\* matches the event date "2026/1/31": the row's consultant is returned
C16_KanjiDateMatches ==
    FirstRowDated(FwKanjiDate) => booking.matchedStaff = RosterConsultant(2)

\* C16 as the code has it: a roster date that differs from the event date in
\* glyphs only (full-width digits, ideographic space) matches it
C16_GlyphVariantMatches ==
    FirstRowDated(FwSlashDate) => booking.matchedStaff = RosterConsultant(2)

C16_Witness ==
    /\ FirstRowDated(FwSlashDate)
    /\ booking.staffList[1][1] # Str(DateTimeLabel)
    /\ booking.matchedStaff = Str(Kato)

\* the data rows (counted from 1, the header being row 1) with the event's date
RowsWithEventDate ==
    {k \in 2..Len(booking.staffList) :
        normalize(RosterDate(k)) = normalize(booking.data.dateTime)}

\* C17: the matcher returns the consultant cell of the first data row, from the
\* top, whose normalized date equals the normalized event date, whatever later
\* rows hold, and null when no row has that date
C17_FirstMatchingRowWins ==
    Searched =>
        IF ColumnsFound /\ RowsWithEventDate # {}
        THEN booking.matchedStaff =
                 RosterConsultant(CHOOSE k \in RowsWithEventDate :
                                      \A m \in RowsWithEventDate : k <= m)
        ELSE booking.matchedStaff = Null

C17_Witness ==
    /\ Searched
    /\ ColumnsFound
    /\ RowsWithEventDate = {2, 3}
    /\ RosterConsultant(2) # RosterConsultant(3)
    /\ booking.matchedStaff = RosterConsultant(2)

\* the handler has got past the fallback notification, or has ended
PastFallback == booking.pc \in {"fallbackSending", "staffCell", "staffCellWriting", "viewer",
                                "viewerWriting", "staffChat", "staffChatCatch", "plainSending",
                                "mentionSending", "done", "thrown"}

Called(op) == \E n \in 1..Len(booking.calls) : booking.calls[n].op = op

\* C18: after a failed read of the staff list the failure is reported,
\* matchedStaff is null, the row is appended when the event has no row index
\* and a column mapping is configured, and the fallback notification goes to
\* the tenant's room
C18_RosterFailureIsNotFatal ==
    (booking.rosterRead = "failed" /\ PastFallback) =>
        /\ Called("notifyError")
        /\ booking.matchedStaff = Null
        /\ (~Truthy(booking.data.rowIndex) /\ BookingColumnMapping(booking.config).v # <<>>)
               => Called("appendRow")
        /\ \E n \in 1..Len(booking.calls) :
              /\ booking.calls[n].op = "sendMessage"
              /\ booking.calls[n].target = String(Get(booking.config, "roomId"))

(***************************************************************************)
(* api/lib/firestore.js : one call of evaluateFilter (lines 55-73)         *)
(***************************************************************************)
Done == <<"d", "o", "n", "e">>
Open == <<"o", "p", "e", "n">>

\* the filters handed to the call: none, and every combination of a target
\* column, an operator and a target value; Filter(Undef, Undef, Undef) is {}
FilterSamples ==
    {Undef, Null} \cup
    {Filter(targetColumn, operator, targetValue) :
        targetColumn \in {Undef, Null, Str(""), Str("status")},
        operator \in {Undef, Str("equals"), Str("not_equals"), Str("contains")},
        targetValue \in {Undef, Str(<<>>), Str(Done), Str(<<" ">> \o Done \o <<"\n">>)}}

\* the field maps handed to the call, Undef for an omitted argument
FieldSamples ==
    {Undef,
     Obj([key \in {} |-> Undef]),
     Obj([status |-> Str(Done)]),
     Obj([status |-> Str(<<"\t">> \o Done \o <<" ">>)]),
     Obj([status |-> Str(Open)]),
     Obj([status |-> Str(<<>>), kana |-> Str(Done)]),
     Obj([status |-> Num(0)])}

InitFiltering ==
    /\ HandlerIdle
    /\ AddedIdle
    /\ tenancy = Idle
    /\ rendering = Idle
    /\ booking = Idle
    /\ \E filter \in FilterSamples, allFields \in FieldSamples :
         filtering = [pc |-> "start", filter |-> filter, allFields |-> allFields,
                      result |-> Returned(Null)]

\* the operator of the filter is not looked at: every filter is an 'equals' filter
EvaluateFilter_IgnoresOperator ==
    /\ filtering.pc = "start"
    /\ filtering' = [filtering EXCEPT
         !.pc = "done",
         !.result = evaluateFilter(IF filtering.filter.t = "obj"
                                   THEN Filter(filtering.filter.v.targetColumn, Str("equals"),
                                               filtering.filter.v.targetValue)
                                   ELSE filtering.filter,
                                   filtering.allFields)]
    /\ UNCHANGED <<handlerVars, tenancy, rendering, booking, added>>

\* lines 55-73: the call returns
EvaluateFilter ==
    /\ filtering.pc = "start"
    /\ filtering' = [filtering EXCEPT
         !.pc = "done",
         !.result = evaluateFilter(filtering.filter, filtering.allFields)]
    /\ UNCHANGED <<handlerVars, tenancy, rendering, booking, added>>

NextFiltering == EvaluateFilter

SpecFiltering == InitFiltering /\ [][NextFiltering]_vars

(***************************************************************************)
(* Properties of evaluateFilter                                            *)
(***************************************************************************)
Evaluated == filtering.pc = "done"

\* the filter names a column: it is an object with a non-empty targetColumn
NamesColumn(filter) ==
    filter.t = "obj" /\ filter.v.targetColumn.t = "str" /\ filter.v.targetColumn.v # ""

\* the operator in force: 'equals' when the filter has none
OperatorOf(filter) == IF filter.v.operator.t = "undefined" THEN "equals" ELSE filter.v.operator.v

\* s without its leading and its trailing whitespace
Stripped(s) ==
    LET inked == {k \in 1..Len(s) : ~IsSpace(s[k])}
    IN IF inked = {} THEN <<>>
       ELSE SubSeq(s, CHOOSE k \in inked : \A m \in inked : k <= m,
                      CHOOSE k \in inked : \A m \in inked : k >= m)

\* the text a value is compared as: '' for a missing or empty value
ComparedText(val) == CASE val.t = "str" -> Stripped(val.v)
                       [] val.t = "num" /\ val.v # 0 -> NumToString(val.v)
                       [] OTHER -> <<>>

\* the field the filter names, Undef when the map has none
NamedField(filter, allFields) ==
    IF allFields.t = "obj" /\ filter.v.targetColumn.v \in DOMAIN allFields.v
    THEN allFields.v[filter.v.targetColumn.v] ELSE Undef

\* the comparison of the filter fails on the fields
ComparisonFails(filter, allFields) ==
    LET same == ComparedText(NamedField(filter, allFields)) = ComparedText(filter.v.targetValue)
    IN \/ OperatorOf(filter) = "equals" /\ ~same
       \/ OperatorOf(filter) = "not_equals" /\ same

\* C19: the call returns false exactly when the filter names a column, its
\* operator is 'equals' (or absent) or 'not_equals', and the comparison of the
\* trimmed strings fails; for no filter, {}, an absent or empty targetColumn
\* and any other operator it returns true, whatever the fields
C19_PermissiveFilter ==
    Evaluated =>
        /\ ~filtering.result.throws
        /\ filtering.result.v =
             ~(NamesColumn(filtering.filter)
               /\ ComparisonFails(filtering.filter, filtering.allFields))

C19_Witness ==
    /\ Evaluated
    /\ NamesColumn(filtering.filter)
    /\ OperatorOf(filtering.filter) = "contains"
    /\ ComparedText(NamedField(filtering.filter, filtering.allFields))
         # ComparedText(filtering.filter.v.targetValue)
    /\ filtering.result = Returned(TRUE)

\* the same filter with 'equals' and 'not_equals' exchanged
Opposite(filter) ==
    Filter(filter.v.targetColumn,
           IF OperatorOf(filter) = "equals" THEN Str("not_equals") ELSE Str("equals"),
           filter.v.targetValue)

\* the filter has a non-empty targetColumn, a non-empty targetValue and one of
\* the two comparing operators
Comparing(filter) ==
    /\ NamesColumn(filter)
    /\ filter.v.targetValue.t = "str" /\ filter.v.targetValue.v # <<>>
    /\ OperatorOf(filter) \in {"equals", "not_equals"}

\* C20: for a non-empty targetColumn and targetValue and any fields, exactly
\* one of the call with 'equals' and the call with 'not_equals' returns true
C20_EqualsAndNotEqualsAreComplements ==
    (Evaluated /\ Comparing(filtering.filter)) =>
        LET other == evaluateFilter(Opposite(filtering.filter), filtering.allFields)
        IN /\ ~filtering.result.throws
           /\ ~other.throws
           /\ filtering.result.v # other.v

C20_Witness ==
    /\ Evaluated
    /\ Comparing(filtering.filter)
    /\ filtering.filter.v.operator = Str("not_equals")
    /\ NamedField(filtering.filter, filtering.allFields) = Str(Open)
    /\ filtering.result = Returned(TRUE)

(***************************************************************************)
(* api/lib/errorNotify.js : notifyError                                    *)
(***************************************************************************)
\* line 120: the longest payload reference taken from a string payload
PayloadSummaryLength == 100
\* line 122: the most keys named in a payload reference
PayloadSummaryKeys == 5

\* process.env as far as the admin credentials go: both set, none set, the token only
AdminEnvironments ==
    {[ADMIN_CHATWORK_TOKEN |-> Env.ADMIN_CHATWORK_TOKEN, ADMIN_ROOM_ID |-> Env.ADMIN_ROOM_ID],
     [ADMIN_CHATWORK_TOKEN |-> Undef, ADMIN_ROOM_ID |-> Undef],
     [ADMIN_CHATWORK_TOKEN |-> Env.ADMIN_CHATWORK_TOKEN, ADMIN_ROOM_ID |-> Undef]}

\* a stored configuration with admin credentials of its own
WithAdmin(stored, owner) ==
    Obj([adminChatworkToken |-> Str(<<"tok-admin-">> \o owner),
         adminChatworkRoomId |-> Str(<<"room-admin-">> \o owner)] @@ stored.v)

\* the configuration of the tenant the failed event belongs to, as the webhook
\* layer resolved it: with and without admin credentials of its own
GoverningConfigs ==
    {StoredConfig(TenantId(1), Undef, Str(SheetA)),
     WithAdmin(StoredConfig(TenantId(1), Undef, Str(SheetA)), TenantId(1))}

\* notification_config/main: absent, without and with admin credentials
ReportingLegacyDocuments ==
    {Null,
     StoredConfig(<<"main">>, Undef, Str(SheetA)),
     WithAdmin(StoredConfig(<<"main">>, Undef, Str(SheetA)), <<"main">>)}

\* the error parameters: the payload is absent, a short or a long string, an
\* object with few or with many keys; the row number is optional
ReportedErrors ==
    {[caseName |-> Str(<<"Webhook: universal">>), errorCategory |-> Undef,
      errorMessage |-> Undef, rowNumber |-> Undef, payload |-> Undef],
     [caseName |-> Undef, errorCategory |-> Str(<<"Unknown Error">>),
      errorMessage |-> Str(<<"boom">>), rowNumber |-> Num(5), payload |-> Str(<<"raw">>)],
     [caseName |-> Str(<<"Case 1">>), errorCategory |-> Str(<<"Spreadsheet Not Found">>),
      errorMessage |-> Str(<<"404">>), rowNumber |-> Undef,
      payload |-> Str([n \in 1..(PayloadSummaryLength + 1) |-> "x"])],
     [caseName |-> Str(<<"Case 1">>), errorCategory |-> Str(<<"Unknown Error">>),
      errorMessage |-> Str(<<"boom">>), rowNumber |-> Undef,
      payload |-> Obj([sheetName |-> Str(SheetA), allFields |-> Obj([kana |-> Str(Taro)])])],
     [caseName |-> Str(<<"Case 1">>), errorCategory |-> Str(<<"Unknown Error">>),
      errorMessage |-> Str(<<"boom">>), rowNumber |-> Num(0),
      payload |-> Obj([sheetName |-> Str(SheetA), allFields |-> Null, dateTime |-> Undef,
                       clientName |-> Undef, staff |-> Undef, email |-> Undef])]}

InitReporting ==
    /\ HandlerIdle
    /\ tenancy = Idle
    /\ rendering = Idle
    /\ booking = Idle
    /\ filtering = Idle
    /\ requesting = Idle
    /\ editing = Idle
    /\ parked = Idle
    /\ \E governing \in GoverningConfigs, env \in AdminEnvironments,
          legacy \in ReportingLegacyDocuments, params \in ReportedErrors :
         reporting = [pc |-> "credentials", governing |-> governing, env |-> env,
                      legacy |-> legacy, params |-> params, credentials |-> Null,
                      calls |-> <<>>, returned |-> NoReturn]

\* lines 116-125: the payload reference
PayloadSummary(payload) ==
    IF ~Truthy(payload) THEN <<>>
    ELSE IF payload.t = "str"
    THEN SubSeq(payload.v, 1, IF Len(payload.v) < PayloadSummaryLength THEN Len(payload.v)
                              ELSE PayloadSummaryLength)
    ELSE LET keys == IF payload.t = "obj"
                     THEN SelectSeq(KeyOrder, LAMBDA k : k \in DOMAIN payload.v)
                     ELSE <<>>
         IN <<"Keys: ">> \o SubSeq(keys, 1, IF Len(keys) < PayloadSummaryKeys THEN Len(keys)
                                           ELSE PayloadSummaryKeys)
            \o (IF Len(keys) > PayloadSummaryKeys THEN <<"...">> ELSE <<>>)

\* lines 42-62: the lines of the message after the title and the timestamp
buildErrorMessage(params, payloadSummary) ==
    <<"Case", String(OrElse(params.caseName, Str(<<"Unknown">>))),
      "Error Type", String(OrElse(params.errorCategory, Str(<<"Unknown Error">>))),
      "Detail", String(OrElse(params.errorMessage, Str(<<"No details available">>)))>>
    \o (IF Truthy(params.rowNumber) THEN <<"Source Row", String(params.rowNumber)>> ELSE <<>>)
    \o (IF payloadSummary # <<>> THEN <<"Payload Reference", payloadSummary>> ELSE <<>>)

\* what getConfig() gives getAdminCredentials: an error, or what the default
\* document notification_config/main stores, {} when it cannot be read
ConfigOutcomes(legacy) ==
    {[kind |-> "rejects", stored |-> Obj([key \in {} |-> Undef])]}
    \cup {[kind |-> "resolves",
           stored |-> IF response.kind = "ok" THEN response.fields
                      ELSE Obj([key \in {} |-> Undef])] :
            response \in Responses(legacy)}

\* lines 68-90: the credentials of the configuration getConfig() returns, where
\* a missing value is the environment's; those of the environment when that
\* configuration lacks one or the call fails; null when the environment lacks one
getAdminCredentials(outcome, env) ==
    LET token == OrElse(Get(outcome.stored, "adminChatworkToken"), env.ADMIN_CHATWORK_TOKEN)
        roomId == OrElse(Get(outcome.stored, "adminChatworkRoomId"), env.ADMIN_ROOM_ID)
    IN IF outcome.kind = "resolves" /\ Truthy(token) /\ Truthy(roomId)
       THEN [token |-> token, roomId |-> roomId]
       ELSE IF Truthy(env.ADMIN_CHATWORK_TOKEN) /\ Truthy(env.ADMIN_ROOM_ID)
       THEN [token |-> env.ADMIN_CHATWORK_TOKEN, roomId |-> env.ADMIN_ROOM_ID]
       ELSE Null

\* a call of sendMessage the report has started
ReportCall(credentials, message) ==
    [op |-> "sendMessage", token |-> credentials.token, roomId |-> credentials.roomId,
     message |-> message, status |-> "pending"]

\* lines 104-135: the credentials are resolved; without any the report ends
\* with false, otherwise the message is built and sent to the admin room
StartReport ==
    /\ reporting.pc = "credentials"
    /\ \E outcome \in ConfigOutcomes(reporting.legacy) :
         LET credentials == getAdminCredentials(outcome, reporting.env)
             message == buildErrorMessage(reporting.params,
                                          PayloadSummary(reporting.params.payload))
         IN IF credentials = Null
            THEN reporting' = [reporting EXCEPT !.pc = "done", !.returned = Returned(FALSE)]
            ELSE reporting' = [reporting EXCEPT
                    !.pc = "sending",
                    !.credentials = credentials,
                    !.calls = Append(@, ReportCall(credentials, message))]
    /\ UNCHANGED <<handlerVars, tenancy, rendering, booking, filtering, requesting, editing,
                   parked>>

\* the failure of the admin message leaves the report as an error
ReportSettles_Rethrows ==
    /\ reporting.pc = "sending"
    /\ \E outcome \in {"ok", "failed"} :
         reporting' = [reporting EXCEPT
            !.pc = "done",
            !.calls = [@ EXCEPT ![Len(@)].status = outcome],
            !.returned = IF outcome = "ok" THEN Returned(TRUE)
                         ELSE Thrown("Chatwork API error")]
    /\ UNCHANGED <<handlerVars, tenancy, rendering, booking, filtering, requesting, editing,
                   parked>>

\* lines 135-143: true once the message is sent; a failure is logged and gives false
ReportSettles ==
    /\ reporting.pc = "sending"
    /\ \E outcome \in {"ok", "failed"} :
         reporting' = [reporting EXCEPT
            !.pc = "done",
            !.calls = [@ EXCEPT ![Len(@)].status = outcome],
            !.returned = Returned(outcome = "ok")]
    /\ UNCHANGED <<handlerVars, tenancy, rendering, booking, filtering, requesting, editing,
                   parked>>

NextReporting ==
    \/ StartReport
    \/ ReportSettles

SpecReporting == InitReporting /\ [][NextReporting]_vars

(***************************************************************************)
(* Properties of notifyError                                               *)
(***************************************************************************)
Reported == reporting.pc = "done"

\* the admin messages of the report that were sent
SentReports == {n \in 1..Len(reporting.calls) : reporting.calls[n].status = "ok"}

\* C21: notifyError never throws; it returns true exactly when its admin
\* message was sent and false otherwise, also without admin credentials; it
\* starts one remote call at most, so no failure of it starts another report
C21_ReportingIsTerminal ==
    /\ Len(reporting.calls) <= 1
    /\ \A n \in 1..Len(reporting.calls) : reporting.calls[n].op = "sendMessage"
    /\ Reported =>
          /\ ~reporting.returned.throws
          /\ reporting.returned.v = (SentReports # {})
          /\ reporting.credentials = Null => reporting.returned.v = FALSE

\* C21 witnesses: a report that failed to send, and one without credentials
C21_Witness ==
    /\ Reported
    /\ reporting.returned = Returned(FALSE)
    /\ Len(reporting.calls) = 1
    /\ reporting.calls[1].status = "failed"

\* the governing tenant configures admin credentials of its own
GoverningHasAdmin ==
    /\ Truthy(Get(reporting.governing, "adminChatworkToken"))
    /\ Truthy(Get(reporting.governing, "adminChatworkRoomId"))

\* C22: the admin message of a report goes out with the governing tenant's
\* admin token and room when that tenant configures them, and with the
\* environment's only when it does not
C22_GoverningTenantCredentials ==
    \A n \in 1..Len(reporting.calls) :
        IF GoverningHasAdmin
        THEN /\ reporting.calls[n].token = Get(reporting.governing, "adminChatworkToken")
             /\ reporting.calls[n].roomId = Get(reporting.governing, "adminChatworkRoomId")
        ELSE /\ reporting.calls[n].token = reporting.env.ADMIN_CHATWORK_TOKEN
             /\ reporting.calls[n].roomId = reporting.env.ADMIN_ROOM_ID

(***************************************************************************)
(* api/lib/chatwork.js : sendMessage, createTask, getRoomMembers           *)
(***************************************************************************)
Rid == <<"r", "i", "d">>

\* the two copies of the client in the repository: api/lib/chatwork.js, which
\* the handlers import, and the unnamed copy part_005; they differ in createTask
ClientCopies == {"api/lib/chatwork.js", "unnamed/part_005"}

\* room ids as configured: a number, its digits, and the digits behind a prefix
RoomIds == {Num(123), Str(<<"1", "2", "3">>), Str(Rid \o <<"1", "2", "3">>),
            Str(Rid \o Rid \o <<"5">>), Str(<<"1">> \o Rid \o <<"3">>)}

InitRequesting ==
    /\ HandlerIdle
    /\ tenancy = Idle
    /\ rendering = Idle
    /\ booking = Idle
    /\ filtering = Idle
    /\ reporting = Idle
    /\ editing = Idle
    /\ parked = Idle
    /\ \E copy \in ClientCopies, op \in {"sendMessage", "createTask", "getRoomMembers"},
          roomId \in RoomIds :
         requesting = [pc |-> "start", copy |-> copy, op |-> op, roomId |-> roomId,
                       path |-> <<>>, returned |-> NoReturn]

\* String(roomId).replace(/^rid/, '')
NormalizedRoomId(roomId) ==
    LET s == String(roomId)
    IN IF StartsWith(s, Rid) THEN SubSeq(s, Len(Rid) + 1, Len(s)) ELSE s

\* the request is under way: its path below the API base
Requested(path) == [requesting EXCEPT !.pc = "fetching", !.path = path]

\* part_005 lines 27-30: the request of sendMessage
SendMessage ==
    /\ requesting.pc = "start"
    /\ requesting.op = "sendMessage"
    /\ requesting' = Requested(<<"rooms", NormalizedRoomId(requesting.roomId), "messages">>)
    /\ UNCHANGED <<handlerVars, tenancy, rendering, booking, filtering, reporting, editing,
                   parked>>

\* part_005 lines 71-73, api/lib/chatwork.js lines 71-72: the request of
\* createTask; only the copy part_005 strips the prefix
CreateTask ==
    /\ requesting.pc = "start"
    /\ requesting.op = "createTask"
    /\ requesting' = Requested(<<"rooms",
                                 IF requesting.copy = "unnamed/part_005"
                                 THEN NormalizedRoomId(requesting.roomId)
                                 ELSE String(requesting.roomId),
                                 "tasks">>)
    /\ UNCHANGED <<handlerVars, tenancy, rendering, booking, filtering, reporting, editing,
                   parked>>

\* part_005 lines 103-105: the request of getRoomMembers
GetRoomMembers ==
    /\ requesting.pc = "start"
    /\ requesting.op = "getRoomMembers"
    /\ requesting' = Requested(<<"rooms", NormalizedRoomId(requesting.roomId), "members">>)
    /\ UNCHANGED <<handlerVars, tenancy, rendering, booking, filtering, reporting, editing,
                   parked>>

\* part_005 lines 41-45, 91-95, 111-115: the body of an ok answer is returned,
\* any other answer is thrown
ResponseSettles ==
    /\ requesting.pc = "fetching"
    /\ \E ok \in BOOLEAN :
         requesting' = [requesting EXCEPT
            !.pc = "done",
            !.returned = IF ok THEN Returned(Null) ELSE Thrown("Chatwork API error")]
    /\ UNCHANGED <<handlerVars, tenancy, rendering, booking, filtering, reporting, editing,
                   parked>>

NextRequesting ==
    \/ SendMessage
    \/ CreateTask
    \/ GetRoomMembers
    \/ ResponseSettles

SpecRequesting == InitRequesting /\ [][NextRequesting]_vars

(***************************************************************************)
(* Properties of the chat platform client                                  *)
(***************************************************************************)
\* the configured room id without the prefix 'rid'
WithoutPrefix(roomId) ==
    LET s == String(roomId)
    IN IF Len(s) >= 3 /\ s[1] = "r" /\ s[2] = "i" /\ s[3] = "d"
       THEN [n \in 1..(Len(s) - 3) |-> s[n + 3]] ELSE s

\* C23: the room id in the request of each of the three operations is the
\* configured room id without its prefix 'rid': 'rid123' and '123' give the
\* same request
C23_RoomPrefixIsStripped ==
    requesting.pc \in {"fetching", "done"} =>
        requesting.path[2] = WithoutPrefix(requesting.roomId)

(***************************************************************************)
(* api/lib/chatwork.js : formatValue on the way into a message             *)
(***************************************************************************)
SheetDate == <<"2", "0", "2", "6", "/", "0", "1", "/", "3", "1">>
SheetEpoch == <<"1", "8", "9", "9", "/", "1", "2", "/", "3", "0">>
Midnight == <<"0", "0", ":", "0", "0", ":", "0", "0">>
FivePastTen == <<"1", "0", ":", "0", "5", ":", "0", "0">>

\* what stands before the first space of a value, and what stands behind it
DateParts == {<<>>, SheetDate, SheetEpoch, <<"1", "8", "9", "9">>, <<"x">>}
TimeParts == {<<>>, <<" ">>, <<" ">> \o Midnight, <<" ">> \o FivePastTen,
              <<" ", "1", "0", ":", "0", "5">>, <<" ", "9">>,
              <<" ">> \o FivePastTen \o <<" ">> \o Midnight,
              <<" ">> \o Midnight \o <<"x">>}

\* the values of an event's fields: strings, and values that are no strings
ShapedValues ==
    {Str(d \o t) : d \in DateParts, t \in TimeParts} \cup {Undef, Null, Num(0), Num(5)}

InitShaping ==
    /\ HandlerIdle
    /\ AddedIdle
    /\ tenancy = Idle
    /\ booking = Idle
    /\ filtering = Idle
    /\ \E val \in ShapedValues :
         rendering = [pc |-> "start", val |-> val, shaped |-> Undef, text |-> <<>>]

\* part_005 lines 122-141: the value is shaped
FormatValue ==
    /\ rendering.pc = "start"
    /\ rendering' = [rendering EXCEPT !.pc = "shaped", !.shaped = formatValue(rendering.val)]
    /\ UNCHANGED <<handlerVars, tenancy, booking, filtering, added>>

\* part_005 lines 155-165: the value is substituted for its key in a template
Substitute ==
    /\ rendering.pc = "shaped"
    /\ rendering' = [rendering EXCEPT
         !.pc = "done",
         !.text = formatMessage(Str(<<Lit(<<"at", " ">>), Key("dateTime")>>),
                                [dateTime |-> rendering.val]).v]
    /\ UNCHANGED <<handlerVars, tenancy, booking, filtering, added>>

NextShaping ==
    \/ FormatValue
    \/ Substitute

SpecShaping == InitShaping /\ [][NextShaping]_vars

(***************************************************************************)
(* Properties of formatValue                                               *)
(***************************************************************************)
\* the text ends with " 00:00:00" / starts with "1899/12/30 "
IsDateOnly(s) ==
    Len(s) >= 9 /\ [n \in 1..9 |-> s[Len(s) - 9 + n]] = <<" ">> \o Midnight
IsTimeOnly(s) ==
    Len(s) >= 11 /\ [n \in 1..11 |-> s[n]] = SheetEpoch \o <<" ">>

\* C24: in a rendered message a string value that ends with " 00:00:00" stands
\* without that suffix, and a string value that starts with "1899/12/30 " and
\* goes on with HH:MM:SS stands as HH:MM, midnight included
C24_DatesAndTimesAreShaped ==
    (rendering.pc = "done" /\ rendering.val.t = "str") =>
        LET s == rendering.val.v
        IN /\ (IsTimeOnly(s) /\ Len(s) = 19)
                => rendering.text = <<"at", " ">> \o [n \in 1..5 |-> s[11 + n]]
           /\ (IsDateOnly(s) /\ ~IsTimeOnly(s))
                => rendering.text = <<"at", " ">> \o [n \in 1..(Len(s) - 9) |-> s[n]]

(***************************************************************************)
(* api/lib/chatwork.js : formatMessage applied to its own output           *)
(***************************************************************************)
\* data maps whose values are themselves written like tokens, next to DataMaps
TokenValuedMaps ==
    {[name |-> Str(<<"{", "status", "}">>), status |-> Str(Ok)],
     [status |-> Str(<<"{", "name", "}">>), name |-> Str(Taro)],
     [allFields |-> Obj([zip |-> Str(<<"{", "name", "}">>)]), name |-> Str(Taro)],
     [name |-> Str(<<"{", "allFields.", "zip", "}">>),
      allFields |-> Obj([zip |-> Str(<<"1", "2", "3">>)])]}

\* a rendered text handed in as a template
TextTemplate(text) == Str(IF text = <<>> THEN <<>> ELSE <<Lit(text)>>)

InitRerendering ==
    /\ HandlerIdle
    /\ AddedIdle
    /\ tenancy = Idle
    /\ booking = Idle
    /\ filtering = Idle
    /\ \E picks \in TemplatePicks, map \in DataMaps \cup TokenValuedMaps :
         rendering = [pc |-> "first",
                      template |-> TemplateOf(picks),
                      data |-> map,
                      once |-> Returned(<<>>),
                      twice |-> Returned(<<>>)]

\* formatMessage(template, data)
RenderOnce ==
    /\ rendering.pc = "first"
    /\ LET result == formatMessage(rendering.template, rendering.data)
       IN rendering' = [rendering EXCEPT
            !.pc = IF result.throws THEN "thrown" ELSE "again",
            !.once = result]
    /\ UNCHANGED <<handlerVars, tenancy, booking, filtering, added>>

\* formatMessage(formatMessage(template, data), data)
RenderAgain ==
    /\ rendering.pc = "again"
    /\ rendering' = [rendering EXCEPT
         !.pc = "done",
         !.twice = formatMessage(TextTemplate(rendering.once.v), rendering.data)]
    /\ UNCHANGED <<handlerVars, tenancy, booking, filtering, added>>

NextRerendering ==
    \/ RenderOnce
    \/ RenderAgain

SpecRerendering == InitRerendering /\ [][NextRerendering]_vars

\* C26: rendering is idempotent: rendering the output of formatMessage again
\* with the same data returns that output unchanged, so text that came in as
\* the value of one key is never substituted by another key of the data
C26_RenderingIsIdempotent ==
    rendering.pc = "done" => rendering.twice = rendering.once

\* the data's values are written without "{"
PlainValued(map) ==
    \A key \in DOMAIN map :
        /\ map[key].t = "str" => IndexOf(map[key].v, <<"{">>) = 0
        /\ map[key].t = "obj" =>
             \A inner \in DOMAIN map[key].v :
                 map[key].v[inner].t = "str" => IndexOf(map[key].v[inner].v, <<"{">>) = 0

\* what holds of the code: the second rendering changes nothing when no value
\* of the data brings a "{" into the text
RerenderingPlainValues ==
    (rendering.pc = "done" /\ PlainValued(rendering.data)) =>
        rendering.twice = rendering.once

(***************************************************************************)
(* src/App.jsx : the settings screen loads, switches and saves a tenant    *)
(***************************************************************************)
\* most rules the editor holds
MaxEditedRules == 2

Legacy == "_legacy"
PromotionIds == <<"p1", "p2">>

\* entries of a stored notificationRules array
RuleWithId(id) == Obj([id |-> Str(<<id>>), sheetName |-> Str(<<"s">>)])
RuleWithoutId == Obj([sheetName |-> Str(<<"s">>)])
RuleWithEmptyId == Obj([id |-> Str(<<>>), sheetName |-> Str(<<"s">>)])

\* the notificationRules field of a stored document: absent, or an array
StoredRules ==
    {Undef,
     Arr(<<RuleWithId("r1")>>),
     Arr(<<Null, RuleWithId("r1")>>),
     Arr(<<RuleWithoutId, RuleWithId("r2")>>),
     Arr(<<RuleWithEmptyId>>)}

\* the ids addRule can come up with (Date.now() and Math.random())
FreshIds == {"r1", "r2", "r3"}

\* Array.prototype.filter
RECURSIVE KeepTruthy(_)
KeepTruthy(rules) ==
    IF rules = <<>> THEN <<>>
    ELSE (IF Truthy(Head(rules)) THEN <<Head(rules)>> ELSE <<>>) \o KeepTruthy(Tail(rules))

\* r => r && r.id
RECURSIVE KeepIdentified(_)
KeepIdentified(rules) ==
    IF rules = <<>> THEN <<>>
    ELSE (IF Truthy(Head(rules)) /\ Truthy(Get(Head(rules), "id"))
          THEN <<Head(rules)>> ELSE <<>>) \o KeepIdentified(Tail(rules))

\* r => r.id !== id, which throws on an entry that is null
RECURSIVE DropRule(_, _)
DropRule(rules, id) ==
    IF rules = <<>> THEN <<>>
    ELSE (IF Get(Head(rules), "id") # Str(<<id>>) THEN <<Head(rules)>> ELSE <<>>)
         \o DropRule(Tail(rules), id)

\* lines 224-228 and 234-238: setConfig(prev => ({...prev, ...data})) after
\* data.notificationRules was filtered; a document without the field leaves
\* the rules the screen had
LoadedRules(prev, stored) ==
    IF Truthy(stored) THEN Arr(KeepIdentified(stored.v)) ELSE prev

InitEditing ==
    /\ HandlerIdle
    /\ tenancy = Idle
    /\ rendering = Idle
    /\ booking = Idle
    /\ filtering = Idle
    /\ reporting = Idle
    /\ requesting = Idle
    /\ parked = Idle
    /\ \E store \in [{"p1", Legacy} -> StoredRules],
          listed \in {<<>>, PromotionIds},
          savedId \in {Null, Str(<<"p2">>)} :
         editing = [pc |-> "mounting",
                    store |-> store @@ [p2 |-> Arr(<<RuleWithoutId, RuleWithId("r2")>>)],
                    promotions |-> listed,
                    savedId |-> savedId,
                    currentPromotionId |-> Null,
                    notificationRules |-> Arr(<<>>),
                    last |-> "none",
                    written |-> Legacy]

\* lines 204-249: loadPromotionsAndConfig, run once when the screen mounts
LoadPromotionsAndConfig ==
    /\ editing.pc = "mounting"
    /\ \E outcome \in {"loaded", "listFails", "docFails"} :
         LET promoList == editing.promotions
             found == \E n \in 1..Len(promoList) : Str(<<promoList[n]>>) = editing.savedId
             targetId == IF promoList = <<>> THEN Null
                         ELSE IF found THEN editing.savedId
                         ELSE Str(<<promoList[1]>>)
             docId == IF Truthy(targetId) THEN targetId.v[1] ELSE Legacy
         IN editing' = [editing EXCEPT
              !.pc = "ready",
              !.last = IF outcome = "loaded" THEN "load" ELSE "none",
              !.currentPromotionId =
                  CASE outcome = "listFails" -> Null
                    [] Truthy(targetId) -> targetId
                    [] outcome = "loaded" -> Str(<<Legacy>>)
                    [] OTHER -> Null,
              !.notificationRules =
                  IF outcome = "loaded"
                  THEN LoadedRules(editing.notificationRules, editing.store[docId])
                  ELSE editing.notificationRules]
    /\ UNCHANGED <<handlerVars, tenancy, rendering, booking, filtering,
                   reporting, requesting, parked>>

\* lines 252-276: switchPromotion(promoId), from the promotion menu
SwitchPromotion ==
    /\ editing.pc = "ready"
    /\ \E n \in 1..Len(editing.promotions), fails \in BOOLEAN :
         LET promoId == editing.promotions[n]
         IN editing' =
              IF fails THEN [editing EXCEPT !.last = "none"]
              ELSE [editing EXCEPT
                     !.last = "switch",
                     !.notificationRules = editing.store[promoId],
                     !.currentPromotionId = Str(<<promoId>>),
                     !.savedId = Str(<<promoId>>)]
    /\ UNCHANGED <<handlerVars, tenancy, rendering, booking, filtering,
                   reporting, requesting, parked>>

\* lines 971-991: addRule
AddRule ==
    /\ editing.pc = "ready"
    /\ LET rules == IF Truthy(editing.notificationRules)
                    THEN editing.notificationRules.v ELSE <<>>
       IN /\ Len(rules) < MaxEditedRules
          /\ \E id \in FreshIds :
               /\ \A n \in 1..Len(rules) : Get(rules[n], "id") # Str(<<id>>)
               /\ editing' = [editing EXCEPT
                    !.last = "edit",
                    !.notificationRules = Arr(rules \o <<RuleWithId(id)>>)]
    /\ UNCHANGED <<handlerVars, tenancy, rendering, booking, filtering,
                   reporting, requesting, parked>>

\* lines 993-997: removeRule(id); r.id on a null entry throws and nothing is set
RemoveRule ==
    /\ editing.pc = "ready"
    /\ LET rules == IF Truthy(editing.notificationRules)
                    THEN editing.notificationRules.v ELSE <<>>
       IN /\ \A n \in 1..Len(rules) : rules[n] # Null
          /\ \E n \in 1..Len(rules) :
               /\ Truthy(Get(rules[n], "id"))
               /\ editing' = [editing EXCEPT
                    !.last = "edit",
                    !.notificationRules = Arr(DropRule(rules, Get(rules[n], "id").v[1]))]
    /\ UNCHANGED <<handlerVars, tenancy, rendering, booking, filtering,
                   reporting, requesting, parked>>

\* lines 329-361: handleSave
HandleSave ==
    /\ editing.pc = "ready"
    /\ \E fails \in BOOLEAN :
         LET configToSave == KeepTruthy(IF Truthy(editing.notificationRules)
                                        THEN editing.notificationRules.v ELSE <<>>)
             docId == IF Truthy(editing.currentPromotionId)
                         /\ editing.currentPromotionId # Str(<<Legacy>>)
                      THEN editing.currentPromotionId.v[1] ELSE Legacy
         IN editing' =
              IF fails THEN [editing EXCEPT !.last = "none"]
              ELSE [editing EXCEPT
                     !.last = "save",
                     !.written = docId,
                     !.store = [editing.store EXCEPT ![docId] = Arr(configToSave)]]
    /\ UNCHANGED <<handlerVars, tenancy, rendering, booking, filtering,
                   reporting, requesting, parked>>

NextEditing ==
    \/ LoadPromotionsAndConfig
    \/ SwitchPromotion
    \/ AddRule
    \/ RemoveRule
    \/ HandleSave

SpecEditing == InitEditing /\ [][NextEditing]_vars

(***************************************************************************)
(* Properties of the settings screen                                       *)
(***************************************************************************)
\* every entry of a notificationRules value is a rule with an id
EachHasId(rules) ==
    Truthy(rules) =>
        \A n \in 1..Len(rules.v) : Truthy(rules.v[n]) /\ Truthy(Get(rules.v[n], "id"))

\* C25: after a load of a tenant's configuration, be it the first one or a
\* switch of tenant, every rule the screen holds has an id, and after a save
\* every rule of the document that was written has an id
C25_RulesWithoutIdAreDiscarded ==
    /\ editing.pc = "ready" /\ editing.last \in {"load", "switch"}
         => EachHasId(editing.notificationRules)
    /\ editing.pc = "ready" /\ editing.last = "save"
         => EachHasId(editing.store[editing.written])

\* what holds of the code: the first load alone discards the rules without id
FirstLoadDiscards ==
    editing.pc = "ready" /\ editing.last = "load" => EachHasId(editing.notificationRules)

\* what holds of the code: a save writes no entry that is null
SaveDropsNull ==
    editing.pc = "ready" /\ editing.last = "save" =>
        \A n \in 1..Len(editing.store[editing.written].v) :
            editing.store[editing.written].v[n] # Null

(***************************************************************************)
(* Properties of the messages of one booking                               *)
(***************************************************************************)
\* the positions of the messages sent to the chat
SentMessages == {n \in 1..Len(booking.calls) : booking.calls[n].op = "sendMessage"}

\* C29: a booking for which no staff member was matched ends with exactly one
\* message sent to the tenant's room, the fallback notification; the regular
\* notification of the booking is not sent as well
C29_UnmatchedBookingNotifiesOnce ==
    (booking.pc = "done" /\ ~Truthy(booking.matchedStaff)) =>
        /\ Cardinality(SentMessages) = 1
        /\ \A n \in SentMessages : booking.calls[n].target = String(Get(booking.config, "roomId"))

\* what holds of the code: an unmatched booking that ends has sent two messages
\* to the tenant's room, the fallback first
UnmatchedBookingNotifiesTwice ==
    (booking.pc = "done" /\ ~Truthy(booking.matchedStaff)) =>
        /\ Cardinality(SentMessages) = 2
        /\ \A n \in SentMessages : booking.calls[n].target = String(Get(booking.config, "roomId"))

\* a write to the spreadsheet has failed: the text of the report of the failure
WriteFailures == {<<"Failed to append new row">>, <<"Failed to update staff name cell">>,
                  <<"Failed to write Viewer URL to Column O">>}
WriteFailed ==
    \E n \in 1..Len(booking.calls) :
        /\ booking.calls[n].op \in {"notifyError", "console.warn"}
        /\ booking.calls[n].text \in WriteFailures

\* the read of the staff chat sheet has failed, which ends the handler
StaffChatReadFailed ==
    \E n \in 1..Len(booking.calls) :
        /\ booking.calls[n].op = "notifyError"
        /\ booking.calls[n].text = <<"Failed to read Staff Chat sheet">>

\* C30: a failed write to the spreadsheet (the appended row, the staff cell,
\* the viewer link) does not keep the handler from the notification: a handler
\* that has ended after such a failure, other than by a failed read of the
\* staff chat sheet, has called sendMessage for the tenant's room
C30_WriteFailuresDoNotBlockNotification ==
    (booking.pc \in {"done", "thrown"} /\ WriteFailed /\ ~StaffChatReadFailed) =>
        \E n \in SentMessages : booking.calls[n].target = String(Get(booking.config, "roomId"))

\* no key of the event's fields is an invalid pattern
PatternsCompile ==
    \A key \in DOMAIN Spread(booking.data.allFields) : KeyKind(key) # "invalid"

\* what holds of the code: with keys that compile, a failed write is followed
\* by the notification
WriteFailuresWithCompilingKeys ==
    (booking.pc \in {"done", "thrown"} /\ WriteFailed /\ ~StaffChatReadFailed
        /\ PatternsCompile) =>
        \E n \in SentMessages : booking.calls[n].target = String(Get(booking.config, "roomId"))

\* what holds of the code: no failed write ends the handler by itself
WritesAreCaught ==
    [][booking.pc \in {"appending", "appendCatch", "staffCellWriting", "viewerWriting"}
         => booking'.pc \notin {"done", "thrown"}]_vars

(***************************************************************************)
(* Outcomes of handleUniversalNotification against its remote calls        *)
(***************************************************************************)
\* the outcomes of notification i of rule p, and of the task of rule p, that
\* carry a status
NotifOutcomesWith(status, p, i) ==
    {k \in NotifOutcomes(p, i) : results.notifications[k].status = status}
TaskOutcomesWith(status, p) ==
    {k \in TaskOutcomes(p) : results.tasks[k].status = status}

\* the calls of a kind for notification i of rule p that resolved
Succeeded(kind, p, i) == {k \in CallsOf(kind, p, i) : calls[k].status = "ok"}

\* C28: the outcomes agree with the remote calls: notification i of rule p has
\* a 'sent' outcome for a room exactly when its one sendMessage to that room
\* resolved, the task of rule p has a 'created' outcome exactly when its
\* createTask resolved, and no notification and no task has two outcomes
C28_OutcomesAgreeWithCalls ==
    /\ \A p \in MatchedPositions :
         /\ \A i \in 1..Len(NotifsOf(p)) :
              /\ Cardinality(NotifOutcomes(p, i)) <= 1
              /\ Cardinality(NotifOutcomesWith("sent", p, i))
                   = Cardinality(Succeeded("notif", p, i))
              /\ \A o \in NotifOutcomesWith("sent", p, i) : \A k \in Succeeded("notif", p, i) :
                   /\ calls[k].op = "sendMessage"
                   /\ calls[k].roomId = results.notifications[o].roomId
         /\ Cardinality(TaskOutcomes(p)) <= 1
         /\ Cardinality(TaskOutcomesWith("created", p)) = Cardinality(Succeeded("task", p, 0))
         /\ \A o \in TaskOutcomesWith("created", p) : \A k \in Succeeded("task", p, 0) :
              /\ calls[k].op = "createTask"
              /\ calls[k].roomId = results.tasks[o].roomId
    /\ \A k \in 1..Len(results.notifications) :
         results.notifications[k].rule \in MatchedPositions
    /\ \A k \in 1..Len(results.tasks) : results.tasks[k].rule \in MatchedPositions

\* C28 witness: the handler has returned its outcomes, among them a sent and a
\* failed notification and a created task
C28_Witness ==
    /\ pc = "done"
    /\ returned.kind = "results"
    /\ \E k \in 1..Len(results.notifications) : results.notifications[k].status = "sent"
    /\ \E k \in 1..Len(results.notifications) : results.notifications[k].status = "failed"
    /\ \E k \in 1..Len(results.tasks) : results.tasks[k].status = "created"

(***************************************************************************)
(* api/handlers/universal.js : the same event handled twice                *)
(***************************************************************************)
\* the configurations of the duplicated event: one matching rule each
DuplicateConfigs ==
    {[notificationRules |-> Arr(<<r>>)] : r \in {s \in RuleSamples \ {Null} : s.v.id \in {1, 2, 3}}}

DuplicateEvents ==
    {Event(Str(SheetA), Obj([c \in {"status"} |-> Str(Ok \o <<" ">>)])),
     Event(Str(SheetA), Obj([c \in {"status", "name("} |-> Str(Ok)]))}

\* the local variables of a handling that has not started
Fresh == [pc |-> "start", matchedRules |-> <<>>, ruleIdx |-> 0, notifIdx |-> 0,
          results |-> [notifications |-> <<>>, tasks |-> <<>>], calls |-> <<>>,
          error |-> "", returned |-> NoReturn, overlapped |-> FALSE]

\* the local variables of the handling that is running
Running == [pc |-> pc, matchedRules |-> matchedRules, ruleIdx |-> ruleIdx,
            notifIdx |-> notifIdx, results |-> results, calls |-> calls,
            error |-> error, returned |-> returned]

\* two requests carry the same event for the same tenant; each handling has
\* its own config and data objects, which are equal and are never written
InitDuplicate ==
    /\ config \in DuplicateConfigs
    /\ data \in DuplicateEvents
    /\ pc = "start"
    /\ matchedRules = <<>>
    /\ ruleIdx = 0
    /\ notifIdx = 0
    /\ results = [notifications |-> <<>>, tasks |-> <<>>]
    /\ calls = <<>>
    /\ error = ""
    /\ returned = NoReturn
    /\ tenancy = Idle
    /\ rendering = Idle
    /\ booking = Idle
    /\ filtering = Idle
    /\ reporting = Idle
    /\ requesting = Idle
    /\ editing = Idle
    /\ parked = Fresh

\* the handler stands on an await (or has not started, or has ended): the
\* event loop may run the other handling
Suspended(at) ==
    at \in {"start", "sending", "notifCatch", "members", "creating", "taskCatch", "fallback",
            "done", "thrown"}

\* the handlings share the cursor of the notification loop
Resume_SharedCursor ==
    /\ Suspended(pc)
    /\ parked.pc \notin {"done", "thrown"}
    /\ pc' = parked.pc
    /\ matchedRules' = parked.matchedRules
    /\ ruleIdx' = parked.ruleIdx
    /\ notifIdx' = notifIdx
    /\ results' = parked.results
    /\ calls' = parked.calls
    /\ error' = parked.error
    /\ returned' = parked.returned
    /\ parked' = Running @@
         [overlapped |-> parked.overlapped
                         \/ (pc \notin {"start", "done", "thrown"} /\ parked.pc # "start")]
    /\ UNCHANGED <<config, data, tenancy, rendering, booking, filtering,
                   reporting, requesting, editing>>

\* lines 13-170: at an await the event loop goes on with the other handling;
\* every variable of the handler is a local of its call
Resume ==
    /\ Suspended(pc)
    /\ parked.pc \notin {"done", "thrown"}
    /\ pc' = parked.pc
    /\ matchedRules' = parked.matchedRules
    /\ ruleIdx' = parked.ruleIdx
    /\ notifIdx' = parked.notifIdx
    /\ results' = parked.results
    /\ calls' = parked.calls
    /\ error' = parked.error
    /\ returned' = parked.returned
    /\ parked' = Running @@
         [overlapped |-> parked.overlapped
                         \/ (pc \notin {"start", "done", "thrown"} /\ parked.pc # "start")]
    /\ UNCHANGED <<config, data, tenancy, rendering, booking, filtering,
                   reporting, requesting, editing>>

NextDuplicate ==
    \/ Match
    \/ NextRule
    \/ ProcessNotification
    \/ SendMessageSettles
    \/ NotificationCatch
    \/ ProcessTask
    \/ GetRoomMembersSettles
    \/ CreateTaskSettles
    \/ TaskCatch
    \/ FallbackSettles
    \/ Resume

SpecDuplicate == InitDuplicate /\ [][NextDuplicate]_vars

(***************************************************************************)
(* Properties of duplicated events                                         *)
(***************************************************************************)
\* the messages of the notifications a handling has sent, in order
RECURSIVE NotifSends(_)
NotifSends(log) ==
    IF log = <<>> THEN <<>>
    ELSE (IF Head(log).op = "sendMessage" /\ Head(log).kind = "notif"
          THEN <<[rule |-> Head(log).rule, notif |-> Head(log).notif,
                  roomId |-> Head(log).roomId, arg |-> Head(log).arg]>>
          ELSE <<>>) \o NotifSends(Tail(log))

\* the messages a handling of the event sends when it returns: one for every
\* notification of a matched rule that has a room and a non-empty message
SendsExpected(matched) ==
    UNION {{[rule |-> matched[n], notif |-> i, roomId |-> NotifsOf(matched[n])[i].v.roomId,
             arg |-> BuildMessage(NotifsOf(matched[n])[i].v, data).v] :
               i \in {j \in 1..Len(NotifsOf(matched[n])) : Sendable(matched[n], j)}} :
           n \in 1..Len(matched)}

SendsOf(log) == {NotifSends(log)[n] : n \in 1..Len(NotifSends(log))}

\* C27: the two handlings of a duplicated event do not touch each other: when
\* both have ended they have sent the same messages in the same order, and a
\* handling that returned has sent every message of the event exactly once
C27_DuplicatesSendTwice ==
    /\ (Terminated /\ parked.pc \in {"done", "thrown"})
         => NotifSends(calls) = NotifSends(parked.calls)
    /\ pc = "done" =>
         /\ SendsOf(calls) = SendsExpected(matchedRules)
         /\ Len(NotifSends(calls)) = Cardinality(SendsExpected(matchedRules))
    /\ parked.pc = "done" =>
         /\ SendsOf(parked.calls) = SendsExpected(parked.matchedRules)
         /\ Len(NotifSends(parked.calls)) = Cardinality(SendsExpected(parked.matchedRules))

\* C27 witness: the two handlings overlapped, both returned, and each has sent
\* two messages
C27_Witness ==
    /\ pc = "done"
    /\ parked.pc = "done"
    /\ parked.overlapped
    /\ Len(NotifSends(calls)) = 2
    /\ Len(NotifSends(parked.calls)) = 2

\* the two handlings ran one after the other, and both sent
C27_WitnessInSequence ==
    /\ pc = "done"
    /\ parked.pc = "done"
    /\ ~parked.overlapped
    /\ Len(NotifSends(calls)) = 2
    /\ Len(NotifSends(parked.calls)) = 2

====
